---------------------------- MODULE Spec2Model ----------------------------
(***************************************************************************)
(* KAZE features (modules/features2d/src/kaze.cpp): the pipeline facade    *)
(* KAZE::KAZE -> Create_Nonlinear_Scale_Space -> Feature_Detection ->      *)
(* Feature_Description, as a state machine.                                *)
(*                                                                         *)
(* Numbers.  Scales are kept in thousandths (esigma = 1600 is 1.6).  The   *)
(* detector response Ldet is integer valued, in units of                   *)
(* DEFAULT_MIN_DETECTOR_THRESHOLD.  Keypoint positions are exact rationals *)
(* xn/den, yn/den.  Image content that comes out of the external image     *)
(* operators (Gaussian blur, Scharr) is an input: an image is identified   *)
(* with the detector response it produces at the pixels of Sites.          *)
(***************************************************************************)
EXTENDS Integers, Sequences, FiniteSets, TLC

(***************************************************************************)
(* Bounds of the model.                                                    *)
(***************************************************************************)
MaxOmax == 2
MaxNSub == 3
ImgW == 5
ImgH == 3
MaxVal == 3
MaxWorkers == 2
AosW == 3
AosH == 2
MaxTau == 2
MaxScale == 2

(***************************************************************************)
(* Program constants (kaze_config.h is not among the sources; the values   *)
(* follow the specification).                                              *)
(***************************************************************************)
DEFAULT_MIN_DETECTOR_THRESHOLD == 1
DEFAULT_SCALE_OFFSET == 1600

Abs(v) == IF v < 0 THEN -v ELSE v

Min2(a, b) == IF a < b THEN a ELSE b

Max2(a, b) == IF a < b THEN b ELSE a

\* (int) of the fraction n/d, d > 0: truncation towards zero
Trunc(n, d) == IF n >= 0 THEN n \div d ELSE -((-n) \div d)

\* fRound on a value given in thousandths: (int)(flt + 0.5)
fRound(milli) == Trunc(milli + 500, 1000)

\* pow(2, j/n) in thousandths, for the sublevel fractions the model uses
Pow2Frac(j, n) ==
    CASE n = 1 -> 1000
      [] n = 2 -> <<1000, 1414>>[j + 1]
      [] n = 3 -> <<1000, 1260, 1587>>[j + 1]
      [] n = 4 -> <<1000, 1189, 1414, 1682>>[j + 1]
      [] OTHER -> 1000

RECURSIVE Pow2Int(_)
Pow2Int(i) == IF i <= 0 THEN 1 ELSE 2 * Pow2Int(i - 1)

(***************************************************************************)
(* Images.  The pixels at which the bounded input family places a non-zero *)
(* detector response, as <<level, y, x>>, and the values it places there.  *)
(***************************************************************************)
Sites ==
    {<<1, 1, 1>>, <<1, 1, 2>>, <<1, 1, 3>>, <<2, 1, 2>>, <<2, 1, 3>>, <<3, 1, 3>>}

Vals == {0} \cup (2..MaxVal)

\* isolated responses at pixels 1 and 3, and ridges: responses at pixel 2 of
\* levels 1 and 2 next to the strongest response at pixel 3 of levels 2 and 3
Images ==
    { im \in [Sites -> Vals] :
        \/ im[<<1, 1, 2>>] = 0 /\ im[<<2, 1, 2>>] = 0
        \/ /\ im[<<1, 1, 2>>] # 0
           /\ im[<<2, 1, 2>>] # 0
           /\ im[<<2, 1, 3>>] = MaxVal
           /\ im[<<3, 1, 3>>] = MaxVal }

\* cv::Mat::zeros(r, c, CV_32F)
Zeros(r, c) == [i \in 0..(r - 1) |-> [j \in 0..(c - 1) |-> 0]]

ZeroMat == [y \in 0..(ImgH - 1) |-> [x \in 0..(ImgW - 1) |-> 0]]

\* a field nobody has written yet: cv::Mat::zeros
ZeroField == [src |-> [s \in Sites |-> 0], n |-> -1, c |-> -1, tau |-> 0]

(***************************************************************************)
(* State.                                                                  *)
(***************************************************************************)
VARIABLES
    options,    \* KAZEOptions copied by the constructor
    evolution,  \* std::vector<tevolution>, indexed 0..L-1
    pc,         \* where the caller is
    called,     \* public methods called so far
    ret,        \* value returned by the last public call
    lvl,        \* level loop counter (scale space build, extremum scan)
    kpts_par,   \* per-level candidate vectors
    kpts,       \* the caller's keypoint vector
    ci,         \* <<i, j>> of the fill loop of Determinant_Hessian_Parallel
    ri,         \* loop counter of Do_Subpixel_Refinement
    dst,        \* solution vector of Do_Subpixel_Refinement
    desc,       \* the caller's descriptor matrix
    kin,        \* history: the keypoints as passed to Feature_Description
    ranges,     \* sub-ranges handed out by cv::parallel_for_
    wpos,       \* per worker: next index and step inside the loop body
    wlog,       \* writes performed by the workers of the running describe
    aos,        \* one AOS step: its arguments, scratch buffers and threads
    body        \* one iteration of an invoker's loop body, sample by sample

vars == <<options, evolution, pc, called, ret, lvl, kpts_par, kpts, ci, ri,
          dst, desc, kin, ranges, wpos, wlog, aos, body>>

NLevels == Cardinality(DOMAIN evolution)

(***************************************************************************)
(* KAZE::KAZE and Allocate_Memory_Evolution                                *)
(***************************************************************************)
\* faulty variant: the octave does not enter the scale
tevolution_NoOctave(i, j, opt) ==
    LET es == (opt.soffset * Pow2Frac(j, opt.nsublevels)) \div 1000
    IN  [ Lt |-> ZeroField, Lsmooth |-> ZeroField, Lflow |-> ZeroField,
          Lx |-> "zero", Lxx |-> "zero",
          Ldet |-> Zeros(opt.img_height, opt.img_width),
          esigma |-> es,
          etime |-> (es * es) \div 2,
          sigma_size |-> fRound(es),
          octave |-> i, sublevel |-> j ]

tevolution(i, j, opt) ==
    LET es == (opt.soffset * Pow2Frac(j, opt.nsublevels) * Pow2Int(i)) \div 1000
    IN  [ Lt |-> ZeroField, Lsmooth |-> ZeroField, Lflow |-> ZeroField,
          Lx |-> "zero", Lxx |-> "zero",
          Ldet |-> Zeros(opt.img_height, opt.img_width),
          esigma |-> es,
          etime |-> (es * es) \div 2,
          sigma_size |-> fRound(es),
          octave |-> i, sublevel |-> j ]

Allocate_Memory_Evolution(opt) ==
    IF opt.omax <= 0 \/ opt.nsublevels <= 0
    THEN [k \in {} |-> 0]
    ELSE [k \in 0..(opt.omax * opt.nsublevels - 1) |->
             tevolution(k \div opt.nsublevels, k % opt.nsublevels, opt)]

\* the options the model constructs instances with: every descriptor family,
\* upright and extended at the threshold 1, and the thresholds -1 and 3 with
\* the rotated 64-entry SURF descriptor
KAZEOptions ==
    { o \in [ omax : 0..MaxOmax, nsublevels : 0..MaxNSub,
              soffset : {DEFAULT_SCALE_OFFSET},
              dthreshold : {-1, 1, 3},
              descriptor : {0, 1, 2}, upright : BOOLEAN, extended : BOOLEAN,
              img_width : {ImgW}, img_height : {ImgH} ] :
        o.dthreshold = 1 \/ (o.descriptor = 0 /\ ~o.upright /\ ~o.extended) }

NoDesc == [rows |-> 0, cols |-> 0, data |-> <<>>]

Init ==
    /\ options \in KAZEOptions
    /\ evolution = Allocate_Memory_Evolution(options)
    /\ pc = "idle"
    /\ called = {}
    /\ ret = "none"
    /\ lvl = 0
    /\ kpts_par = <<>>
    /\ kpts = <<>>
    /\ ci = <<0, 0>>
    /\ ri = 0
    /\ dst = <<0, 0, 0, 1>>
    /\ desc = NoDesc
    /\ kin = <<>>
    /\ ranges = <<>>
    /\ wpos = <<>>
    /\ wlog = {}
    /\ aos = <<>>
    /\ body = <<>>


(***************************************************************************)
(* Create_Nonlinear_Scale_Space                                            *)
(***************************************************************************)
\* the images that fit an evolution of L levels
ImagesFor(L) == {im \in Images : \A s \in Sites : s[1] >= L => im[s] = 0}

\* the images an instance is built on: the whole family with the rotated
\* 64-entry SURF descriptor at the threshold 1, the images with responses on
\* level 1 only with the other options
BuildImages(opt, L) ==
    IF opt.descriptor = 0 /\ ~opt.upright /\ ~opt.extended /\ opt.dthreshold = 1
    THEN ImagesFor(L)
    ELSE ImagesFor(Min2(L, 2))

\* evolution.size() == 0: report and return -1
BuildFail ==
    /\ pc = "idle"
    /\ called = {}
    /\ NLevels = 0
    /\ ret' = "-1"
    /\ called' = called \cup {"build"}
    /\ UNCHANGED <<options, evolution, pc, lvl, kpts_par, kpts, ci, ri, dst,
                   desc, kin, ranges, wpos, wlog, aos, body>>

\* level 0: copy the image, Gaussian_2D_Convolution twice, Compute_KContrast
BuildFirst ==
    /\ pc = "idle"
    /\ called = {}
    /\ NLevels > 0
    /\ \E img \in BuildImages(options, NLevels) :
          evolution' = [evolution EXCEPT
                          ![0].Lt = [src |-> img, n |-> 0, c |-> -1, tau |-> 0],
                          ![0].Lsmooth = [src |-> img, n |-> 0, c |-> -1, tau |-> 0]]
    /\ pc' = "build"
    /\ lvl' = 1
    /\ called' = called \cup {"build"}
    /\ UNCHANGED <<options, ret, kpts_par, kpts, ci, ri, dst, desc, kin, ranges,
                   wpos, wlog, aos, body>>

\* AOS_Step_Scalar: Ld from Ldprev, the conductivity c and the step size; the
\* result records the number of steps behind it, the field its conductivity
\* was taken from and its step size
AOS_Step_Scalar(Ldprev, c, stepsize) ==
    [src |-> Ldprev.src, n |-> Ldprev.n + 1, c |-> c.n, tau |-> stepsize]

\* faulty variant: every level is evolved from level 0
PrevLevel_First(i) == 0

\* the level step i reads: evolution[i-1]
PrevLevel(i) == i - 1

\* faulty variant: the loop stops one level early
MoreLevels_OneShort(i, size) == i < size - 1

\* the loop condition i < evolution.size()
MoreLevels(i, size) == i < size

\* one iteration of the loop over the levels 1..L-1
BuildLevel ==
    /\ pc = "build"
    /\ MoreLevels(lvl, NLevels)
    /\ LET prev == evolution[PrevLevel(lvl)]
           sm   == prev.Lt
           tau  == evolution[lvl].etime - prev.etime
       IN  evolution' = [evolution EXCEPT
                           ![lvl].Lsmooth = sm,
                           ![lvl].Lx = "unit",
                           ![lvl].Lflow = sm,
                           ![lvl].Lt = AOS_Step_Scalar(prev.Lt, sm, tau)]
    /\ lvl' = lvl + 1
    /\ UNCHANGED <<options, pc, called, ret, kpts_par, kpts, ci, ri, dst,
                   desc, kin, ranges, wpos, wlog, aos, body>>

\* the loop is over: return 0
BuildReturn ==
    /\ pc = "build"
    /\ ~MoreLevels(lvl, NLevels)
    /\ pc' = "idle"
    /\ ret' = "0"
    /\ UNCHANGED <<options, evolution, called, lvl, kpts_par, kpts, ci, ri,
                   dst, desc, kin, ranges, wpos, wlog, aos, body>>

(***************************************************************************)
(* Feature_Detection: Compute_Detector_Response                            *)
(***************************************************************************)
\* Ldet of a level, from the smoothed level the derivatives are taken of
Response(Lsmooth, level) ==
    IF Lsmooth.n < 0 THEN ZeroMat
    ELSE [y \in 0..(ImgH - 1) |-> [x \in 0..(ImgW - 1) |->
             IF <<level, y, x>> \in Sites THEN Lsmooth.src[<<level, y, x>>]
             ELSE 0]]

Compute_Detector_Response(ev) ==
    [k \in DOMAIN ev |->
        [ev[k] EXCEPT
            !.Lx = IF ev[k].Lsmooth.n < 0 THEN "zero" ELSE "multi",
            !.Lxx = IF ev[k].Lsmooth.n < 0 THEN "zero" ELSE "multi",
            !.Ldet = Response(ev[k].Lsmooth, k)]]

(***************************************************************************)
(* Find_Extremum_Threading                                                 *)
(***************************************************************************)
\* nldiffusion_functions.cpp is not among the sources: the 3x3 maximum test
Check_Maximum_Neighbourhood(img, dsize, value, row, col, same_img) ==
    \A i \in (row - dsize)..(row + dsize) : \A j \in (col - dsize)..(col + dsize) :
        (i >= 0 /\ i < ImgH /\ j >= 0 /\ j < ImgW /\ ~(same_img /\ i = row /\ j = col))
            => ~(img[i][j] > value)

\* faulty variant: the comparison with options.dthreshold is left out
PassesThreshold_NoDthreshold(value, opt) == value >= DEFAULT_MIN_DETECTOR_THRESHOLD

PassesThreshold(value, opt) ==
    value > opt.dthreshold /\ value >= DEFAULT_MIN_DETECTOR_THRESHOLD

PassesLeft(value, left) == value >= left

is_extremum(ev, opt, level, ix, jx) ==
    LET value == ev[level].Ldet[ix][jx]
    IN  /\ PassesThreshold(value, opt)
        /\ PassesLeft(value, ev[level].Ldet[ix][jx - 1])
        /\ Check_Maximum_Neighbourhood(ev[level].Ldet, 1, value, ix, jx, TRUE)
        /\ Check_Maximum_Neighbourhood(ev[level - 1].Ldet, 1, value, ix, jx, FALSE)
        /\ Check_Maximum_Neighbourhood(ev[level + 1].Ldet, 1, value, ix, jx, FALSE)

NumAngle(v) == [k |-> "num", v |-> v, of |-> <<>>]

\* faulty variant: the angle field is not loaded with the sublevel
point_NoSublevel(ev, level, ix, jx) ==
    [ xn |-> jx, yn |-> ix, den |-> 1,
      response |-> Abs(ev[level].Ldet[ix][jx]),
      size |-> [k |-> "esigma", n |-> ev[level].esigma, d |-> 1000],
      octave |-> ev[level].octave,
      class_id |-> level,
      angle |-> NumAngle(0),
      org |-> <<level, ix, jx>> ]

\* a candidate; org is history only: the level and pixel the scan found it at
point(ev, level, ix, jx) ==
    [ xn |-> jx, yn |-> ix, den |-> 1,
      response |-> Abs(ev[level].Ldet[ix][jx]),
      size |-> [k |-> "esigma", n |-> ev[level].esigma, d |-> 1000],
      octave |-> ev[level].octave,
      class_id |-> level,
      angle |-> NumAngle(ev[level].sublevel),
      org |-> <<level, ix, jx>> ]

\* the raster scan of the interior pixels from the p-th one on
RECURSIVE ScanFrom(_, _, _, _)
ScanFrom(ev, opt, level, p) ==
    LET wi == opt.img_width - 2
        hi == opt.img_height - 2
    IN  IF wi <= 0 \/ hi <= 0 \/ p >= wi * hi THEN <<>>
        ELSE LET ix == 1 + (p \div wi)
                 jx == 1 + (p % wi)
                 rest == ScanFrom(ev, opt, level, p + 1)
             IN  IF is_extremum(ev, opt, level, ix, jx)
                 THEN <<point(ev, level, ix, jx)>> \o rest
                 ELSE rest

Find_Extremum_Threading(ev, opt, level) == ScanFrom(ev, opt, level, 0)


(***************************************************************************)
(* Determinant_Hessian_Parallel: the fill loop (cross-level merge)         *)
(***************************************************************************)
\* std::vector::erase(begin() + i - 1)
RemoveAt(s, i) == SubSeq(s, 1, i - 1) \o SubSeq(s, i + 1, Len(s))

SameOrAdjacentLevel(kp, level) ==
    kp.class_id = level \/ kp.class_id = level + 1 \/ kp.class_id = level - 1

\* squared pixel distance of two keypoints, as the fraction <<n, d>>
Dist2(a, b) ==
    LET dx == a.xn * b.den - b.xn * a.den
        dy == a.yn * b.den - b.yn * a.den
    IN  <<dx * dx + dy * dy, (a.den * b.den) * (a.den * b.den)>>

\* dist < sigma_size * sigma_size
TooClose(cand, kp, sigma_size) ==
    Dist2(cand, kp)[1] < sigma_size * sigma_size * Dist2(cand, kp)[2]

CandidateWins(cand, kp) == cand.response > kp.response

\* the first ik >= from (1-based) at which the scan of kpts breaks, or 0
RECURSIVE FirstRepeated(_, _, _, _, _)
FirstRepeated(kp, cand, level, sigma_size, from) ==
    IF from > Len(kp) THEN 0
    ELSE IF SameOrAdjacentLevel(kp[from], level) /\ TooClose(cand, kp[from], sigma_size)
         THEN from
         ELSE FirstRepeated(kp, cand, level, sigma_size, from + 1)

\* smax in thousandths: 11*sqrt(2) or 12*sqrt(2); 0.0 for any other descriptor
Smax(opt) ==
    IF opt.descriptor = 0 \/ opt.descriptor = 2 THEN 15556
    ELSE IF opt.descriptor = 1 THEN 16971
    ELSE 0

\* the test on left_x, right_x, up_y, down_y: the descriptor support of the
\* candidate leaves the image
OutOfImage(cand, smax, opt) ==
    LET r == (smax * cand.size.n) \div cand.size.d
        x == Trunc(cand.xn * 1000, cand.den)
        y == Trunc(cand.yn * 1000, cand.den)
        left_x == fRound(x - r)
        right_x == fRound(x + r)
        up_y == fRound(y - r)
        down_y == fRound(y + r)
    IN  left_x < 0 \/ right_x >= opt.img_width \/ up_y < 0 \/ down_y >= opt.img_height

\* faulty variant: is_out keeps the outcome of the test
is_out_NotReset(out) == out

\* is_out as the accept branch reads it: "is_out = false;" follows the test
is_out(out) == FALSE

\* faulty variant: a winning candidate is appended and its incumbent erased
Fill_Reappend(kp, cand, level, sigma_size, opt) ==
    LET ik == FirstRepeated(kp, cand, level, sigma_size, 1)
    IN  IF ik = 0 THEN Append(kp, cand)
        ELSE IF CandidateWins(cand, kp[ik]) THEN Append(RemoveAt(kp, ik), cand)
        ELSE kp

\* one candidate against the keypoints accepted so far
Fill(kp, cand, level, sigma_size, opt) ==
    LET ik == FirstRepeated(kp, cand, level, sigma_size, 1)
        survives == ik = 0 \/ CandidateWins(cand, kp[ik])
    IN  IF survives /\ ~is_out(OutOfImage(cand, Smax(opt), opt))
        THEN IF ik = 0 THEN Append(kp, cand) ELSE [kp EXCEPT ![ik] = cand]
        ELSE kp

(***************************************************************************)
(* Do_Subpixel_Refinement                                                  *)
(***************************************************************************)
RECURSIVE GCD(_, _)
GCD(a, b) == IF b = 0 THEN Abs(a) ELSE GCD(b, a % Abs(b))

Det3(m) ==
      m[1][1] * (m[2][2] * m[3][3] - m[2][3] * m[3][2])
    - m[1][2] * (m[2][1] * m[3][3] - m[2][3] * m[3][1])
    + m[1][3] * (m[2][1] * m[3][2] - m[2][2] * m[3][1])

WithColumn(m, c, b) == [r \in 1..3 |-> [k \in 1..3 |-> IF k = c THEN b[r] ELSE m[r][k]]]

\* 4*A and 4*b of the linear system at a keypoint
System(ev, kp) ==
    LET x  == Trunc(kp.xn, kp.den)
        y  == Trunc(kp.yn, kp.den)
        D  == ev[kp.class_id].Ldet
        Dp == ev[kp.class_id + 1].Ldet
        Dm == ev[kp.class_id - 1].Ldet
        Dxx4 == 4 * (D[y][x + 1] + D[y][x - 1] - 2 * D[y][x])
        Dyy4 == 4 * (D[y + 1][x] + D[y - 1][x] - 2 * D[y][x])
        Dss4 == 4 * (Dp[y][x] + Dm[y][x] - 2 * D[y][x])
        Dxy4 == (D[y + 1][x + 1] + D[y - 1][x - 1]) - (D[y - 1][x + 1] + D[y + 1][x - 1])
        Dxs4 == (Dp[y][x + 1] + Dm[y][x - 1]) - (Dp[y][x - 1] + Dm[y][x + 1])
        Dys4 == (Dp[y + 1][x] + Dm[y - 1][x]) - (Dp[y - 1][x] + Dm[y + 1][x])
        Dx4  == 2 * (D[y][x + 1] - D[y][x - 1])
        Dy4  == 2 * (D[y + 1][x] - D[y - 1][x])
        Ds4  == 2 * (Dp[y][x] - Dm[y][x])
    IN  [ A |-> << <<Dxx4, Dxy4, Dxs4>>, <<Dxy4, Dyy4, Dys4>>, <<Dxs4, Dys4, Dss4>> >>,
          b |-> <<-Dx4, -Dy4, -Ds4>> ]

\* cv::solve(A, b, dst, DECOMP_LU) is not among the sources.  The solution
\* as <<nx, ny, ns, den>> with den > 0; on a singular system the call
\* fails and dst either keeps its previous contents or is zeroed.
Solve(sys, old) ==
    LET d == Det3(sys.A)
        sg == IF d < 0 THEN -1 ELSE 1
    IN  IF d = 0 THEN {old, <<0, 0, 0, 1>>}
        ELSE { << sg * Det3(WithColumn(sys.A, 1, sys.b)),
                  sg * Det3(WithColumn(sys.A, 2, sys.b)),
                  sg * Det3(WithColumn(sys.A, 3, sys.b)),
                  sg * d >> }

\* fabs(dst[k]) <= 1.0 for the three components
Stable(sol) == Abs(sol[1]) <= sol[4] /\ Abs(sol[2]) <= sol[4] /\ Abs(sol[3]) <= sol[4]

\* the keypoint as refined by the solution sol
Refined(kp, sol, opt) ==
    LET xn == kp.xn * sol[4] + sol[1] * kp.den
        yn == kp.yn * sol[4] + sol[2] * kp.den
        dn == kp.den * sol[4]
        g  == GCD(GCD(xn, yn), dn)
        sn == kp.octave * opt.nsublevels * sol[4] + kp.angle.v * sol[4] + sol[3]
        sd == opt.nsublevels * sol[4]
        h  == GCD(sn, sd)
    IN  [kp EXCEPT !.xn = xn \div g, !.yn = yn \div g, !.den = dn \div g,
                   !.size = [k |-> "dsc", n |-> sn \div h, d |-> sd \div h],
                   !.angle = NumAngle(0)]



(***************************************************************************)
(* Feature_Detection, step by step                                         *)
(***************************************************************************)
\* Compute_Detector_Response, then kpts_par.clear() and one empty vector
\* per interior level
DetectBegin ==
    /\ pc = "idle"
    /\ called \cap {"detect", "describe"} = {}
    /\ kpts = <<>>
    /\ NLevels > 0
    /\ evolution' = Compute_Detector_Response(evolution)
    /\ kpts_par' = [k \in 1..(NLevels - 2) |-> <<>>]
    /\ lvl' = 1
    /\ pc' = IF NLevels > 2 THEN "scan" ELSE "fill"
    /\ ci' = <<0, 0>>
    /\ called' = called \cup {"detect"}
    /\ UNCHANGED <<options, ret, kpts, ri, dst, desc, kin, ranges, wpos, wlog, aos, body>>

\* evolution.size() - 1 wraps around for an empty evolution: the loop
\* "i < evolution.size() - 1" pushes vectors until the allocation throws
DetectAbort ==
    /\ pc = "idle"
    /\ called \cap {"detect", "describe"} = {}
    /\ kpts = <<>>
    /\ NLevels = 0
    /\ pc' = "abort"
    /\ called' = called \cup {"detect"}
    /\ UNCHANGED <<options, evolution, ret, lvl, kpts_par, kpts, ci, ri, dst,
                   desc, kin, ranges, wpos, wlog, aos, body>>

\* Find_Extremum_Threading(lvl)
Scan ==
    /\ pc = "scan"
    /\ lvl < NLevels - 1
    /\ kpts_par' = [kpts_par EXCEPT ![lvl] = Find_Extremum_Threading(evolution, options, lvl)]
    /\ lvl' = lvl + 1
    /\ pc' = IF lvl + 1 < NLevels - 1 THEN "scan" ELSE "fill"
    /\ UNCHANGED <<options, evolution, called, ret, kpts, ci, ri, dst, desc, kin,
                   ranges, wpos, wlog, aos, body>>

\* the loop indices <<i, j>> of the next candidate at or after c, or <<>>
RECURSIVE NextCandidate(_, _)
NextCandidate(par, c) ==
    IF c[1] >= Len(par) THEN <<>>
    ELSE IF c[2] < Len(par[c[1] + 1]) THEN c
    ELSE NextCandidate(par, <<c[1] + 1, 0>>)

\* one iteration of the inner fill loop
FillStep ==
    /\ pc = "fill"
    /\ NextCandidate(kpts_par, ci) # <<>>
    /\ LET c == NextCandidate(kpts_par, ci)
           level == c[1] + 1
       IN  /\ kpts' = Fill(kpts, kpts_par[c[1] + 1][c[2] + 1], level,
                           evolution[level].sigma_size, options)
           /\ ci' = <<c[1], c[2] + 1>>
    /\ UNCHANGED <<options, evolution, pc, called, ret, lvl, kpts_par, ri, dst,
                   desc, kin, ranges, wpos, wlog, aos, body>>

\* Determinant_Hessian_Parallel returns, Do_Subpixel_Refinement starts
FillEnd ==
    /\ pc = "fill"
    /\ NextCandidate(kpts_par, ci) = <<>>
    /\ pc' = "refine"
    /\ ri' = 0
    /\ UNCHANGED <<options, evolution, called, ret, lvl, kpts_par, kpts, ci,
                   dst, desc, kin, ranges, wpos, wlog, aos, body>>

\* faulty variant: the erase is not followed by i--
AfterErase_NoDecrement(i) == i + 1

\* the loop index after kpts.erase(kpts.begin() + i); i--; and the i++ of the
\* loop: i is unsigned, so at i = 0 it wraps to UINT_MAX and back to 0
AfterErase(i) == i

\* one iteration of the refinement loop: keep and move, or erase and i--
RefineStep ==
    /\ pc = "refine"
    /\ ri < Len(kpts)
    /\ \E sol \in Solve(System(evolution, kpts[ri + 1]), dst) :
          /\ dst' = sol
          /\ IF Stable(sol)
             THEN /\ kpts' = [kpts EXCEPT ![ri + 1] = Refined(kpts[ri + 1], sol, options)]
                  /\ ri' = ri + 1
             ELSE /\ kpts' = RemoveAt(kpts, ri + 1)
                  /\ ri' = AfterErase(ri)
    /\ UNCHANGED <<options, evolution, pc, called, ret, lvl, kpts_par, ci,
                   desc, kin, ranges, wpos, wlog, aos, body>>

DetectReturn ==
    /\ pc = "refine"
    /\ ri >= Len(kpts)
    /\ pc' = "idle"
    /\ UNCHANGED <<options, evolution, called, ret, lvl, kpts_par, kpts, ci,
                   ri, dst, desc, kin, ranges, wpos, wlog, aos, body>>

(***************************************************************************)
(* Feature_Description with SURFInvoker, MSURFInvoker, GSURFInvoker        *)
(***************************************************************************)
\* faulty variant: the matrix is always allocated 64 wide
DescCols_Always64(extended) == 64

\* cv::Mat::zeros(kpts.size(), 128 or 64, CV_32FC1)
DescCols(extended) == IF extended THEN 128 ELSE 64

ZeroRow == [fn |-> "zeros", len |-> 0, kp |-> <<>>, lev |-> <<>>, val |-> "zero"]

\* the extraction function the invoker's constructor selects
computeDescriptorFn(opt) ==
    CASE opt.descriptor = 0 ->
            IF opt.upright
            THEN (IF opt.extended THEN "Get_SURF_Upright_Descriptor_128"
                                  ELSE "Get_SURF_Upright_Descriptor_64")
            ELSE (IF opt.extended THEN "Get_SURF_Descriptor_128"
                                  ELSE "Get_SURF_Descriptor_64")
      [] opt.descriptor = 1 ->
            IF opt.upright
            THEN (IF opt.extended THEN "Get_MSURF_Upright_Descriptor_128"
                                  ELSE "Get_MSURF_Upright_Descriptor_64")
            ELSE (IF opt.extended THEN "Get_MSURF_Descriptor_128"
                                  ELSE "Get_MSURF_Descriptor_64")
      [] OTHER ->
            IF opt.upright
            THEN (IF opt.extended THEN "Get_GSURF_Descriptor_128"
                                  ELSE "Get_GSURF_Upright_Descriptor_64")
            ELSE (IF opt.extended THEN "Get_GSURF_Descriptor_128"
                                  ELSE "Get_GSURF_Descriptor_64")

\* the dsize each extraction function sets and writes desc[0..dsize-1] with
dsize(fn) ==
    IF fn \in {"Get_SURF_Upright_Descriptor_128", "Get_SURF_Descriptor_128",
               "Get_MSURF_Upright_Descriptor_128", "Get_MSURF_Descriptor_128",
               "Get_GSURF_Descriptor_128"}
    THEN 128 ELSE 64

\* the squared length len the accumulation loops of an extractor end with:
\* 0 when every derivative sample of the level is 0
SquaredLength(kp, ev) ==
    IF ev[kp.class_id].Lx = "zero" THEN "zero" ELSE "positive"

\* len = sqrt(len); desc[i] /= len for i < dsize: 0/0 leaves NaN in every entry
Normalized(len) == IF len = "zero" THEN "NaN" ELSE "unit"

\* Clipping_Descriptor: every iteration clamps the entries to +-cratio and
\* divides them by the new length; comparisons with NaN are false and the
\* length of a NaN row is NaN, so a NaN row stays NaN
Clipping_Descriptor(row) == IF row = "NaN" THEN "NaN" ELSE "unit"

\* the row an extraction function computes: a function of the keypoint it is
\* given and of the derivatives of the level kpt.class_id; val is the row
\* after "convert to unit vector"
Extract(fn, kp, ev) ==
    [ fn |-> fn, len |-> dsize(fn), kp |-> <<kp>>,
      lev |-> <<ev[kp.class_id].Lx, ev[kp.class_id].Lxx, ev[kp.class_id].Lsmooth>>,
      val |-> Normalized(SquaredLength(kp, ev)) ]

\* Compute_Main_Orientation_SURF: kpt.angle is assigned only in a window with
\* a positive summed length, which zero derivatives never give
Compute_Main_Orientation_SURF(kp, ev) ==
    IF ev[kp.class_id].Lx = "zero" THEN kp
    ELSE [kp EXCEPT !.angle =
             [k |-> "ori", v |-> 0,
              of |-> <<kp.class_id, kp.xn, kp.yn, kp.den, kp.size.n, kp.size.d>>]]

\* "if (upright) kp.angle = 0; else Compute_Main_Orientation_SURF(kp, ...)"
Orient(kp, ev, opt) ==
    IF opt.upright THEN [kp EXCEPT !.angle = NumAngle(0)]
    ELSE Compute_Main_Orientation_SURF(kp, ev)

\* faulty variants: the start of the range is used in place of i
KeypointIndex_RangeStart(i, r) == r[1]

RowIndex_RangeStart(i, r) == r[1]

\* keypoints[i] and desc.ptr<float>(i) in operator()(r), r = <<start, end>>
KeypointIndex(i, r) == i

RowIndex(i, r) == i

\* cv::parallel_for_ is not among the sources: the range [lo, hi) is cut
\* into at most k consecutive non-empty sub-ranges
RECURSIVE Stripes(_, _, _)
Stripes(lo, hi, k) ==
    IF lo >= hi THEN {<<>>}
    ELSE {<< <<lo, hi>> >>} \cup
         (IF k <= 1 THEN {}
          ELSE UNION {{<< <<lo, c>> >> \o rest : rest \in Stripes(c, hi, k - 1)} :
                        c \in (lo + 1)..(hi - 1)})

\* the keypoints a caller that did not run the detector passes to
\* Feature_Description: one keypoint at pixel (2, 1) of level 0 or 1
GivenKeypoints(ev) ==
    { [ xn |-> 2, yn |-> 1, den |-> 1, response |-> 3,
        size |-> [k |-> "given", n |-> 2 * ev[l].esigma, d |-> 1000],
        octave |-> ev[l].octave, class_id |-> l, angle |-> NumAngle(0),
        org |-> <<l, 1, 2>> ] : l \in {0, 1} \cap DOMAIN ev }

\* the caller fills its empty vector itself
CallerKeypoints ==
    /\ pc = "idle"
    /\ kpts = <<>>
    /\ called \cap {"detect", "describe"} = {}
    /\ \E k \in GivenKeypoints(evolution) : kpts' = <<k>>
    /\ UNCHANGED <<options, evolution, pc, called, ret, lvl, kpts_par, ci, ri,
                   dst, desc, kin, ranges, wpos, wlog, aos, body>>

\* allocate the matrix and start the parallel loop
DescribeBegin ==
    /\ pc = "idle"
    /\ "describe" \notin called
    /\ desc' = [rows |-> Len(kpts), cols |-> DescCols(options.extended),
                data |-> [i \in 1..Len(kpts) |-> ZeroRow]]
    /\ kin' = kpts
    /\ \E rs \in Stripes(0, Len(kpts), MaxWorkers) :
          /\ ranges' = rs
          /\ wpos' = [w \in 1..Len(rs) |-> [i |-> rs[w][1], step |-> "orient"]]
    /\ wlog' = {}
    /\ pc' = "describe"
    /\ called' = called \cup {"describe"}
    /\ UNCHANGED <<options, evolution, ret, lvl, kpts_par, kpts, ci, ri, dst, aos, body>>

\* first half of the loop body of worker w: the angle of keypoints[i]
WorkerOrient(w) ==
    /\ pc = "describe"
    /\ wpos[w].step = "orient"
    /\ wpos[w].i < ranges[w][2]
    /\ LET i  == wpos[w].i
           k  == KeypointIndex(i, ranges[w])
           kp == Orient(kpts[k + 1], evolution, options)
       IN  /\ kpts' = [kpts EXCEPT ![k + 1] = kp]
           /\ wlog' = IF kp = kpts[k + 1] /\ ~options.upright THEN wlog
                      ELSE wlog \cup {[w |-> w, at |-> i, kind |-> "angle", idx |-> k]}
    /\ wpos' = [wpos EXCEPT ![w].step = "extract"]
    /\ UNCHANGED <<options, evolution, pc, called, ret, lvl, kpts_par, ci, ri,
                   dst, desc, kin, ranges, aos, body>>

\* second half: (this->*computeDescriptorFn)(kp, descriptor)
WorkerExtract(w) ==
    /\ pc = "describe"
    /\ wpos[w].step = "extract"
    /\ LET i == wpos[w].i
           k == KeypointIndex(i, ranges[w])
           r == RowIndex(i, ranges[w])
       IN  /\ desc' = [desc EXCEPT !.data[r + 1] =
                          Extract(computeDescriptorFn(options), kpts[k + 1], evolution)]
           /\ wlog' = wlog \cup {[w |-> w, at |-> i, kind |-> "row", idx |-> r]}
    /\ wpos' = [wpos EXCEPT ![w] = [i |-> wpos[w].i + 1, step |-> "orient"]]
    /\ UNCHANGED <<options, evolution, pc, called, ret, lvl, kpts_par, kpts, ci,
                   ri, dst, kin, ranges, aos, body>>

\* the barrier at the end of cv::parallel_for_
DescribeReturn ==
    /\ pc = "describe"
    /\ \A w \in 1..Len(ranges) : wpos[w].i >= ranges[w][2]
    /\ pc' = "idle"
    /\ UNCHANGED <<options, evolution, called, ret, lvl, kpts_par, kpts, ci, ri,
                   dst, desc, kin, ranges, wpos, wlog, aos, body>>

Next ==
    \/ BuildFail
    \/ BuildFirst
    \/ BuildLevel
    \/ BuildReturn
    \/ DetectBegin
    \/ DetectAbort
    \/ Scan
    \/ FillStep
    \/ FillEnd
    \/ RefineStep
    \/ DetectReturn
    \/ CallerKeypoints
    \/ DescribeBegin
    \/ \E w \in 1..Len(ranges) : WorkerOrient(w)
    \/ \E w \in 1..Len(ranges) : WorkerExtract(w)
    \/ DescribeReturn

Spec == Init /\ [][Next]_vars

(***************************************************************************)
(* One AOS step (AOS_Step_Scalar, AOS_Step_Scalar_Parallel, AOS_Rows,      *)
(* AOS_Columns, Thomas) on an image of AosH rows and AosW columns.  The    *)
(* conductivity and the step size are integers; the floats Thomas computes *)
(* are exact fractions <<n, d>> with d > 0.                                *)
(***************************************************************************)
\* what a division by zero leaves in a float (inf or NaN)
NonFinite == <<0, 0>>

Frac(n, d) ==
    IF d = 0 THEN NonFinite
    ELSE LET g == GCD(n, d)
             s == IF d < 0 THEN -1 ELSE 1
         IN  <<(s * n) \div g, (s * d) \div g>>

FInt(i) == <<i, 1>>

FAdd(a, b) ==
    IF a = NonFinite \/ b = NonFinite THEN NonFinite
    ELSE Frac(a[1] * b[2] + b[1] * a[2], a[2] * b[2])

FSub(a, b) ==
    IF a = NonFinite \/ b = NonFinite THEN NonFinite
    ELSE Frac(a[1] * b[2] - b[1] * a[2], a[2] * b[2])

FMul(a, b) ==
    IF a = NonFinite \/ b = NonFinite THEN NonFinite
    ELSE Frac(a[1] * b[1], a[2] * b[2])

FDiv(a, b) ==
    IF a = NonFinite \/ b = NonFinite THEN NonFinite
    ELSE Frac(a[1] * b[2], a[2] * b[1])

NRows(m) == Cardinality(DOMAIN m)

NCols(m) == IF NRows(m) = 0 THEN 0 ELSE Cardinality(DOMAIN m[0])

\* cv::Mat::t()
Transpose(m) ==
    [j \in 0..(NCols(m) - 1) |-> [i \in 0..(NRows(m) - 1) |-> m[i][j]]]

ConstMat(v) == [i \in 0..(AosH - 1) |-> [j \in 0..(AosW - 1) |-> v]]

\* the image that is base everywhere but v at row p, column q
Impulse(p, q, base, v) ==
    [i \in 0..(AosH - 1) |-> [j \in 0..(AosW - 1) |->
        IF i = p /\ j = q THEN v ELSE base]]

\* qr(i, j) = c(i, j) + c(i + 1, j)
Qr(c) ==
    [i \in 0..(AosH - 2) |-> [j \in 0..(AosW - 1) |-> c[i][j] + c[i + 1][j]]]

\* faulty variant: the first and last rows are treated as interior rows
Py_Mirrored(qr) ==
    [i \in 0..(AosH - 1) |-> [j \in 0..(AosW - 1) |->
        IF i = AosH - 1 THEN 2 * qr[AosH - 2][j]
        ELSE IF i = 0 THEN 2 * qr[0][j]
        ELSE qr[i - 1][j] + qr[i][j]]]

\* py: the first row, the last row, then the rows between
Py(qr) ==
    [i \in 0..(AosH - 1) |-> [j \in 0..(AosW - 1) |->
        IF i = AosH - 1 THEN qr[AosH - 2][j]
        ELSE IF i = 0 THEN qr[0][j]
        ELSE qr[i - 1][j] + qr[i][j]]]

\* faulty variant: the identity is not added to the diagonal
Ay_NoIdentity(py, stepsize) ==
    [i \in DOMAIN py |-> [j \in DOMAIN py[i] |-> stepsize * py[i][j]]]

\* ay = 1.0 + stepsize * py
Ay(py, stepsize) ==
    [i \in DOMAIN py |-> [j \in DOMAIN py[i] |-> 1 + stepsize * py[i][j]]]

\* by = -stepsize * qr
By(qr, stepsize) ==
    [i \in DOMAIN qr |-> [j \in DOMAIN qr[i] |-> -(stepsize * qr[i][j])]]

\* qc(i, j) = c(i, j) + c(i, j + 1)
Qc(c) ==
    [i \in 0..(AosH - 1) |-> [j \in 0..(AosW - 2) |-> c[i][j] + c[i][j + 1]]]

\* px: the first column, the last column, then the columns between
Px(qc) ==
    [i \in 0..(AosH - 1) |-> [j \in 0..(AosW - 1) |->
        IF j = AosW - 1 THEN qc[i][AosW - 2]
        ELSE IF j = 0 THEN qc[i][0]
        ELSE qc[i][j - 1] + qc[i][j]]]

\* ax = 1.0 + stepsize * px.t()
Ax(px, stepsize) == Ay(Transpose(px), stepsize)

\* bx = -stepsize * qc.t()
Bx(qc, stepsize) == By(Transpose(qc), stepsize)

\* Thomas, column j: the pivot m(k, j)
RECURSIVE ThomasM(_, _, _, _)
ThomasM(a, b, j, k) ==
    IF k = 0 THEN FInt(a[0][j])
    ELSE LET l == FDiv(FInt(b[k - 1][j]), ThomasM(a, b, j, k - 1))
         IN  FSub(FInt(a[k][j]), FMul(l, FInt(b[k - 1][j])))

\* Thomas, column j: y(k, j) of the forward substitution
RECURSIVE ThomasY(_, _, _, _, _)
ThomasY(a, b, Ld, j, k) ==
    IF k = 0 THEN FInt(Ld[0][j])
    ELSE LET l == FDiv(FInt(b[k - 1][j]), ThomasM(a, b, j, k - 1))
         IN  FSub(FInt(Ld[k][j]), FMul(l, ThomasY(a, b, Ld, j, k - 1)))

\* Thomas, column j: x(i, j) of the backward substitution
RECURSIVE ThomasX(_, _, _, _, _)
ThomasX(a, b, Ld, j, i) ==
    IF i = NRows(a) - 1
    THEN FDiv(ThomasY(a, b, Ld, j, i), ThomasM(a, b, j, i))
    ELSE FDiv(FSub(ThomasY(a, b, Ld, j, i),
                   FMul(FInt(b[i][j]), ThomasX(a, b, Ld, j, i + 1))),
              ThomasM(a, b, j, i))

Thomas(a, b, Ld) ==
    [i \in 0..(NRows(a) - 1) |-> [j \in 0..(NCols(a) - 1) |->
        ThomasX(a, b, Ld, j, i)]]

\* Ld = 0.5 * (Lty + Ltx.t())
Combine(Lty, Ltx) ==
    [i \in 0..(AosH - 1) |-> [j \in 0..(AosW - 1) |->
        FMul(<<1, 2>>, FAdd(Lty[i][j], Ltx[j][i]))]]

\* AOS_Rows as a whole: the buffers it leaves
AOS_Rows(Ldprev, c, stepsize) ==
    LET q == Qr(c)
        p == Py(q)
        a == Ay(p, stepsize)
        b == By(q, stepsize)
    IN  [qr |-> q, py |-> p, ay |-> a, by |-> b, Lty |-> Thomas(a, b, Ldprev)]

\* AOS_Columns as a whole: the buffers it leaves
AOS_Columns(Ldprev, c, stepsize) ==
    LET q == Qc(c)
        p == Px(q)
        a == Ax(p, stepsize)
        b == Bx(q, stepsize)
    IN  [qc |-> q, px |-> p, ax |-> a, bx |-> b,
         Ltx |-> Thomas(a, b, Transpose(Ldprev))]

\* AOS_Step_Scalar on matrices: the rows, then the columns, then the mean
AOS_Step_Scalar_Mat(Ldprev, c, stepsize) ==
    Combine(AOS_Rows(Ldprev, c, stepsize).Lty,
            AOS_Columns(Ldprev, c, stepsize).Ltx)

(***************************************************************************)
(* AOS_Step_Scalar_Parallel, step by step: thread 1 runs AOS_Rows, thread  *)
(* 2 runs AOS_Columns, the caller joins both and combines.                 *)
(***************************************************************************)
pipeline == <<options, evolution, pc, called, ret, lvl, kpts_par, kpts, ci, ri,
              dst, desc, kin, ranges, wpos, wlog, body>>

\* the instance whose AOS step is followed
AosOptions ==
    [ omax |-> 1, nsublevels |-> 1, soffset |-> DEFAULT_SCALE_OFFSET,
      dthreshold |-> 1, descriptor |-> 0, upright |-> FALSE, extended |-> FALSE,
      img_width |-> AosW, img_height |-> AosH ]

\* the images and conductivities the step is called with
AosImages ==
    {ConstMat(k) : k \in 0..2} \cup
    {Impulse(p, q, 0, 1) : p \in 0..(AosH - 1), q \in 0..(AosW - 1)}

AosConductivities ==
    {ConstMat(1), ConstMat(0)} \cup
    {Impulse(p, q, 1, 0) : p \in 0..(AosH - 1), q \in 0..(AosW - 1)}

\* the scratch buffers as Allocate_Memory_Evolution leaves them
ZeroScratch ==
    [ qr |-> Zeros(AosH - 1, AosW), py |-> Zeros(AosH, AosW),
      ay |-> Zeros(AosH, AosW), by |-> Zeros(AosH - 1, AosW),
      Lty |-> [i \in 0..(AosH - 1) |-> [j \in 0..(AosW - 1) |-> FInt(0)]],
      qc |-> Zeros(AosH, AosW - 1), px |-> Zeros(AosH, AosW),
      ax |-> Zeros(AosH, AosW), bx |-> Zeros(AosH - 1, AosW),
      Ltx |-> [i \in 0..(AosW - 1) |-> [j \in 0..(AosH - 1) |-> FInt(0)]] ]

\* the scratch buffers as an earlier step of the build loop leaves them
UsedScratch ==
    AOS_Rows(Impulse(0, 0, 0, 1), Impulse(0, 0, 1, 0), 1) @@
    AOS_Columns(Impulse(0, 0, 0, 1), Impulse(0, 0, 1, 0), 1)

NoCall ==
    [ Ldprev |-> <<>>, c |-> <<>>, stepsize |-> 0, Ld |-> <<>>,
      th1 |-> "idle", th2 |-> "idle" ]

AOSInit ==
    /\ options = AosOptions
    /\ evolution = Allocate_Memory_Evolution(options)
    /\ pc = "idle"
    /\ called = {}
    /\ ret = "none"
    /\ lvl = 0
    /\ kpts_par = <<>>
    /\ kpts = <<>>
    /\ ci = <<0, 0>>
    /\ ri = 0
    /\ dst = <<0, 0, 0, 1>>
    /\ desc = NoDesc
    /\ kin = <<>>
    /\ ranges = <<>>
    /\ wpos = <<>>
    /\ wlog = {}
    /\ aos \in {ZeroScratch @@ NoCall, UsedScratch @@ NoCall}
    /\ body = <<>>

\* the call: both threads are created
AOS_Begin ==
    /\ aos.th1 = "idle"
    /\ \E Ldprev \in AosImages : \E c \in AosConductivities :
       \E stepsize \in 1..MaxTau :
          aos' = [aos EXCEPT !.Ldprev = Ldprev, !.c = c, !.stepsize = stepsize,
                             !.th1 = "qr", !.th2 = "qc"]
    /\ UNCHANGED pipeline

Rows_qr ==
    /\ aos.th1 = "qr"
    /\ aos' = [aos EXCEPT !.qr = Qr(aos.c), !.th1 = "py"]
    /\ UNCHANGED pipeline

Rows_py ==
    /\ aos.th1 = "py"
    /\ aos' = [aos EXCEPT !.py = Py(aos.qr), !.th1 = "ab"]
    /\ UNCHANGED pipeline

Rows_ab ==
    /\ aos.th1 = "ab"
    /\ aos' = [aos EXCEPT !.ay = Ay(aos.py, aos.stepsize),
                          !.by = By(aos.qr, aos.stepsize), !.th1 = "thomas"]
    /\ UNCHANGED pipeline

Rows_Thomas ==
    /\ aos.th1 = "thomas"
    /\ aos' = [aos EXCEPT !.Lty = Thomas(aos.ay, aos.by, aos.Ldprev),
                          !.th1 = "done"]
    /\ UNCHANGED pipeline

Columns_qc ==
    /\ aos.th2 = "qc"
    /\ aos' = [aos EXCEPT !.qc = Qc(aos.c), !.th2 = "px"]
    /\ UNCHANGED pipeline

\* faulty variant: the column pass keeps its p in the buffer of the row pass
Columns_px_SharedPy ==
    /\ aos.th2 = "px"
    /\ aos' = [aos EXCEPT !.py = Px(aos.qc), !.px = Px(aos.qc), !.th2 = "ab"]
    /\ UNCHANGED pipeline

Columns_px ==
    /\ aos.th2 = "px"
    /\ aos' = [aos EXCEPT !.px = Px(aos.qc), !.th2 = "ab"]
    /\ UNCHANGED pipeline

Columns_ab ==
    /\ aos.th2 = "ab"
    /\ aos' = [aos EXCEPT !.ax = Ax(aos.px, aos.stepsize),
                          !.bx = Bx(aos.qc, aos.stepsize), !.th2 = "thomas"]
    /\ UNCHANGED pipeline

Columns_Thomas ==
    /\ aos.th2 = "thomas"
    /\ aos' = [aos EXCEPT !.Ltx = Thomas(aos.ax, aos.bx, Transpose(aos.Ldprev)),
                          !.th2 = "done"]
    /\ UNCHANGED pipeline

\* AOSth1->join(); AOSth2->join(); Ld = 0.5 * (Lty + Ltx.t())
AOS_Join ==
    /\ aos.th1 = "done"
    /\ aos.th2 = "done"
    /\ aos' = [aos EXCEPT !.Ld = Combine(aos.Lty, aos.Ltx),
                          !.th1 = "joined", !.th2 = "joined"]
    /\ UNCHANGED pipeline

AOSNext ==
    \/ AOS_Begin
    \/ Rows_qr
    \/ Rows_py
    \/ Rows_ab
    \/ Rows_Thomas
    \/ Columns_qc
    \/ Columns_px
    \/ Columns_ab
    \/ Columns_Thomas
    \/ AOS_Join

AOSSpec == AOSInit /\ [][AOSNext]_vars


(***************************************************************************)
(* A whole run of Feature_Detection as a function of the threshold, built  *)
(* from the same steps: used to compare two runs on one scale space.       *)
(***************************************************************************)
\* the candidates of the levels from level on, each with its level
RECURSIVE ScanAll(_, _, _)
ScanAll(ev, opt, level) ==
    IF level >= Cardinality(DOMAIN ev) - 1 THEN <<>>
    ELSE Find_Extremum_Threading(ev, opt, level) \o ScanAll(ev, opt, level + 1)

RECURSIVE FillAll(_, _, _, _)
FillAll(ev, opt, cands, kp) ==
    IF cands = <<>> THEN kp
    ELSE FillAll(ev, opt, Tail(cands),
                 Fill(kp, Head(cands), Head(cands).class_id,
                      ev[Head(cands).class_id].sigma_size, opt))

\* the vectors refinement can end with, from index i (0-based) on
RECURSIVE RefineAll(_, _, _, _, _)
RefineAll(ev, opt, kp, i, d) ==
    IF i >= Len(kp) THEN {kp}
    ELSE UNION { IF Stable(sol)
                 THEN RefineAll(ev, opt, [kp EXCEPT ![i + 1] = Refined(kp[i + 1], sol, opt)],
                                i + 1, sol)
                 ELSE RefineAll(ev, opt, RemoveAt(kp, i + 1), i, sol)
                 : sol \in Solve(System(ev, kp[i + 1]), d) }

DetectAll(ev, opt) ==
    RefineAll(ev, opt, FillAll(ev, opt, ScanAll(ev, opt, 1), <<>>), 0, <<0, 0, 0, 1>>)

Range(f) == {f[i] : i \in DOMAIN f}

(***************************************************************************)
(* Properties                                                              *)
(***************************************************************************)
\* Feature_Detection has returned and nothing has touched kpts since
Detected == pc = "idle" /\ "detect" \in called /\ "describe" \notin called

\* C1: no keypoint in the vector detection fills has a response below
\* dthreshold or below DEFAULT_MIN_DETECTOR_THRESHOLD
C1_Thresholded ==
    \A i \in 1..Len(kpts) :
        /\ ~(kpts[i].response < options.dthreshold)
        /\ ~(kpts[i].response < DEFAULT_MIN_DETECTOR_THRESHOLD)

\* C1 witness: detection returned keypoints under a positive threshold
C1_Witness == Detected /\ Len(kpts) >= 2 /\ options.dthreshold = 1

\* C2 (as claimed): any two returned keypoints on the same or adjacent
\* levels are further apart than sigma_size of the lower level
C2_DedupInvariant ==
    Detected =>
        \A a \in 1..Len(kpts) : \A b \in 1..Len(kpts) :
            (a # b /\ Abs(kpts[a].class_id - kpts[b].class_id) <= 1) =>
                LET sg == evolution[Min2(kpts[a].class_id, kpts[b].class_id)].sigma_size
                    d2 == Dist2(kpts[a], kpts[b])
                IN  d2[1] > sg * sg * d2[2]

\* C3 (as claimed): what detection returns at the threshold 2d is among
\* what it returns at d, on the same scale space
C3_ThresholdMonotone ==
    (Detected /\ options.dthreshold > 0) =>
        \E hi \in DetectAll(evolution, [options EXCEPT !.dthreshold = 2 * options.dthreshold]) :
            Range(hi) \subseteq Range(kpts)

Orgs(kp) == [i \in 1..Len(kp) |-> kp[i].org]

\* <<level, row, column>> a before <<level, row, column>> b in the scan
ScannedBefore(a, b) ==
    \/ a[1] < b[1]
    \/ a[1] = b[1] /\ a[2] < b[2]
    \/ a[1] = b[1] /\ a[2] = b[2] /\ a[3] < b[3]

\* C4 (as claimed): the returned keypoints are in scan order
C4_ScanOrder ==
    Detected =>
        \A a \in 1..Len(kpts) : \A b \in 1..Len(kpts) :
            a < b => ScannedBefore(kpts[a].org, kpts[b].org)

\* C4 (amended): the merge never moves an accepted keypoint - a candidate is
\* dropped, appended at the end, or written over the one incumbent it beats -
\* and refinement only erases entries, keeping the others in order
C4_SlotOrder ==
    [][ /\ (pc = "fill" /\ pc' = "fill") =>
              LET c == NextCandidate(kpts_par, ci)
                  cand == kpts_par[c[1] + 1][c[2] + 1]
              IN  \/ kpts' = kpts
                  \/ kpts' = Append(kpts, cand)
                  \/ /\ Len(kpts') = Len(kpts)
                     /\ \E ik \in 1..Len(kpts) :
                           /\ kpts'[ik] = cand
                           /\ \A m \in 1..Len(kpts) : m # ik => kpts'[m] = kpts[m]
        /\ (pc = "refine" /\ pc' = "refine") =>
              \/ Orgs(kpts') = Orgs(kpts)
              \/ Orgs(kpts') = RemoveAt(Orgs(kpts), ri + 1)
      ]_vars

\* C4 witness: a returned vector in which a later scanned candidate stands
\* before an earlier scanned survivor
C4_Witness ==
    /\ Detected
    /\ \E a \in 1..Len(kpts) : \E b \in 1..Len(kpts) :
          a < b /\ ScannedBefore(kpts[b].org, kpts[a].org)


\* Feature_Description has returned
Described == pc = "idle" /\ "describe" \in called

StripAngle(kp) == [kp EXCEPT !.angle = NumAngle(0)]

\* C5: the descriptor matrix has one row per keypoint and 128 columns iff
\* options.extended, else 64; row i is computed from keypoints[i]; describing
\* adds, removes and reorders no keypoint
C5_DescriptorMatrix ==
    /\ (pc = "describe" \/ Described) =>
          /\ Len(kpts) = Len(kin)
          /\ \A i \in 1..Len(kpts) : StripAngle(kpts[i]) = StripAngle(kin[i])
          /\ desc.rows = Len(kpts)
          /\ Len(desc.data) = desc.rows
          /\ (desc.cols = 128) <=> options.extended
          /\ desc.cols \in {64, 128}
    /\ Described => \A i \in 1..Len(kpts) : desc.data[i].kp = <<kpts[i]>>

\* C5 witness: an extended description of two or more keypoints has returned
C5_Witness == Described /\ Len(kpts) >= 2 /\ options.extended

\* every logged write went to the index the worker was handling, inside its
\* own range, and no target was written by two workers
WritesOwned ==
    /\ \A e \in wlog :
          /\ e.kind \in {"row", "angle"}
          /\ e.idx = e.at
          /\ ranges[e.w][1] <= e.idx /\ e.idx < ranges[e.w][2]
    /\ \A e \in wlog : \A f \in wlog :
          (e.kind = f.kind /\ e.idx = f.idx) => e.w = f.w

\* C6: during the parallel extraction the worker handling index i writes
\* only row i and the angle of keypoints[i], no two workers write the same
\* row or keypoint, and no evolution level is written
C6_DisjointWrites ==
    [][ (pc = "describe" \/ pc' = "describe") =>
            (evolution' = evolution /\ WritesOwned') ]_vars

\* C6 witness: two workers have both written rows
C6_Witness ==
    /\ pc = "describe"
    /\ \E e \in wlog : \E f \in wlog : e.w # f.w /\ e.kind = "row" /\ f.kind = "row"

\* the sequential run i = 0..n-1 of the loop body over the whole range
RECURSIVE Sequential(_, _, _, _, _, _)
Sequential(kp, d, i, n, ev, opt) ==
    IF i >= n THEN <<kp, d>>
    ELSE LET k   == KeypointIndex(i, <<0, n>>)
             r   == RowIndex(i, <<0, n>>)
             kp2 == [kp EXCEPT ![k + 1] = Orient(kp[k + 1], ev, opt)]
             d2  == [d EXCEPT !.data[r + 1] =
                        Extract(computeDescriptorFn(opt), kp2[k + 1], ev)]
         IN  Sequential(kp2, d2, i + 1, n, ev, opt)

\* C7: whatever the partition into sub-ranges and the interleaving of the
\* workers, the matrix and the keypoint angles after Feature_Description are
\* those of the sequential run on the same keypoints
C7_Deterministic ==
    Described =>
        <<kpts, desc>> =
            Sequential(kin,
                       [rows |-> Len(kin), cols |-> DescCols(options.extended),
                        data |-> [i \in 1..Len(kin) |-> ZeroRow]],
                       0, Len(kin), evolution, options)

\* C7 witness: a description split over two workers has returned
C7_Witness == Described /\ Len(ranges) >= 2 /\ ~options.upright /\ Len(kpts) >= 2

\* C8 (as claimed): on a validly configured instance, a detect or describe
\* call made before the scale space was built returns an error status and
\* leaves the keypoint vector and the descriptor matrix untouched
C8_ErrorBeforeBuild ==
    (pc = "idle" /\ "build" \notin called /\ called # {} /\ NLevels > 0) =>
        (ret = "error" /\ kpts = <<>> /\ desc = NoDesc)

\* C9 (as claimed): an instance whose configuration is invalid (omax <= 0 or
\* nsublevels <= 0) is never handed to the caller, so no public method ever
\* runs on an empty evolution vector
C9_FailFast ==
    called # {} => (options.omax > 0 /\ options.nsublevels > 0 /\ NLevels > 0)

\* C10: Create_Nonlinear_Scale_Space returns -1 exactly when the evolution
\* vector is empty, and otherwise returns 0 with every level 0..L-1 filled
C10_BuildStatus ==
    /\ ("build" \in called /\ pc # "build") =>
          /\ ret \in {"0", "-1"}
          /\ (ret = "-1") <=> (NLevels = 0)
    /\ ("build" \notin called \/ pc = "build") => ret = "none"
    /\ ret = "0" =>
          \A k \in DOMAIN evolution :
              /\ evolution[k].Lt.n = k
              /\ evolution[k].Lsmooth.n >= 0

\* C10 witness: a build over six levels has returned 0
C10_Witness == ret = "0" /\ NLevels = 6 /\ pc = "idle"

\* C11: the evolution vector holds omax * nsublevels levels, level
\* o * nsublevels + s has octave o and sublevel s, and esigma and etime grow
\* strictly from each level to the next in storage order
C11_ScaleSpaceMonotone ==
    /\ DOMAIN evolution = 0..(options.omax * options.nsublevels - 1)
    /\ \A o \in 0..(options.omax - 1) : \A s \in 0..(options.nsublevels - 1) :
          /\ evolution[o * options.nsublevels + s].octave = o
          /\ evolution[o * options.nsublevels + s].sublevel = s
    /\ \A i \in DOMAIN evolution :
          i > 0 => /\ evolution[i].etime > evolution[i - 1].etime
                   /\ evolution[i].esigma > evolution[i - 1].esigma

\* C11 witness: an instance of two octaves of two sublevels, in use
C11_Witness ==
    /\ options.omax = 2 /\ options.nsublevels = 2 /\ NLevels = 4
    /\ pc = "idle" /\ ret = "0"

\* C13 (as claimed): on a built scale space, every descriptor row that is not
\* all zero has unit norm after extraction, with and without the clipping
\* normalization
C13_UnitNorm ==
    ret = "0" =>
        \A i \in 1..Len(desc.data) :
            desc.data[i].val # "zero" =>
                /\ desc.data[i].val = "unit"
                /\ Clipping_Descriptor(desc.data[i].val) = "unit"

\* the rows of the tridiagonal matrix (diagonal a, off-diagonals b) sum to 1
RowSumsOne(a, b) ==
    \A i \in DOMAIN a : \A j \in DOMAIN a[i] :
        a[i][j] + (IF i > 0 THEN b[i - 1][j] ELSE 0)
                + (IF i < NRows(a) - 1 THEN b[i][j] ELSE 0) = 1

\* C12: every row of the matrices AOS_Rows and AOS_Columns hand to Thomas
\* sums to 1, the first and the last included, and with conductivity 1
\* everywhere a step returns a constant image unchanged
C12_AOSIdentity ==
    /\ aos.th1 \in {"thomas", "done", "joined"} => RowSumsOne(aos.ay, aos.by)
    /\ aos.th2 \in {"thomas", "done", "joined"} => RowSumsOne(aos.ax, aos.bx)
    /\ (aos.th1 = "joined" /\ aos.c = ConstMat(1)
           /\ \E k \in 0..2 : aos.Ldprev = ConstMat(k)) =>
          \A i \in 0..(AosH - 1) : \A j \in 0..(AosW - 1) :
              aos.Ld[i][j] = FInt(aos.Ldprev[i][j])

\* C12 witness: a step with conductivity 1 on the constant image 2 returned
C12_Witness ==
    /\ aos.th1 = "joined"
    /\ aos.c = ConstMat(1)
    /\ aos.Ldprev = ConstMat(2)
    /\ aos.stepsize = 2
    /\ aos.Ld = [i \in 0..(AosH - 1) |-> [j \in 0..(AosW - 1) |-> FInt(2)]]

\* the keypoint after is the keypoint before moved by dst, with its size
\* taken from dsc = octave + (sublevel + ds) / nsublevels and its angle 0
ShiftedBy(before, after, sol) ==
    /\ after.xn * before.den * sol[4] =
           (before.xn * sol[4] + sol[1] * before.den) * after.den
    /\ after.yn * before.den * sol[4] =
           (before.yn * sol[4] + sol[2] * before.den) * after.den
    /\ after.size.k = "dsc"
    /\ after.size.n * options.nsublevels * sol[4] =
           ( evolution[before.class_id].octave * options.nsublevels * sol[4]
             + evolution[before.class_id].sublevel * sol[4] + sol[3] ) * after.size.d
    /\ after.angle = NumAngle(0)
    /\ after.response = before.response
    /\ after.class_id = before.class_id
    /\ after.org = before.org

\* one iteration of the refinement loop looks at the first keypoint that no
\* iteration has looked at, keeps and moves it or removes it, and leaves
\* every other keypoint where it is
ExaminesNext ==
    (pc = "refine" /\ pc' = "refine" /\ <<kpts, ri, dst>> # <<kpts', ri', dst'>>) =>
        /\ ri < Len(kpts)
        /\ IF Abs(dst'[1]) <= dst'[4] /\ Abs(dst'[2]) <= dst'[4] /\ Abs(dst'[3]) <= dst'[4]
           THEN /\ ri' = ri + 1
                /\ Len(kpts') = Len(kpts)
                /\ ShiftedBy(kpts[ri + 1], kpts'[ri + 1], dst')
                /\ \A j \in 1..Len(kpts) : j # ri + 1 => kpts'[j] = kpts[j]
           ELSE /\ ri' = ri
                /\ Len(kpts') = Len(kpts) - 1
                /\ \A j \in 1..Len(kpts') :
                      kpts'[j] = IF j <= ri THEN kpts[j] ELSE kpts[j + 1]

\* during the loop the keypoints before the index are the ones examined and
\* kept, the keypoints from the index on are the ones not yet examined
ExaminedPrefix ==
    pc = "refine" =>
        /\ ri <= Len(kpts)
        /\ \A j \in 1..Len(kpts) :
              IF j <= ri THEN kpts[j].size.k = "dsc" ELSE kpts[j].size.k = "esigma"

\* C14: sub-pixel refinement examines every keypoint of the vector exactly
\* once, also when the first one is erased; a keypoint is kept iff |dx|, |dy|
\* and |ds| are at most 1, and then it is shifted, its size comes from dsc and
\* its angle is 0; otherwise it is removed; the survivors keep their order
C14_RefineOnce == [](ExaminedPrefix) /\ [][ExaminesNext]_vars

\* C14 witness: the first keypoint of the vector was just erased and the
\* loop stands at index 0 again with a keypoint left to examine
C14_Witness ==
    /\ pc = "refine"
    /\ ri = 0
    /\ ~Stable(dst)
    /\ Len(kpts) >= 1

\* the fields of a keypoint are the ones the scan of its level gives it
ScanFields(kp) ==
    LET i == kp.class_id
    IN  /\ 1 <= i /\ i <= NLevels - 2
        /\ kp.den = 1
        /\ 1 <= kp.xn /\ kp.xn <= options.img_width - 2
        /\ 1 <= kp.yn /\ kp.yn <= options.img_height - 2
        /\ kp.response = Abs(evolution[i].Ldet[kp.yn][kp.xn])
        /\ kp.size = [k |-> "esigma", n |-> evolution[i].esigma, d |-> 1000]
        /\ kp.octave = evolution[i].octave
        /\ kp.angle = NumAngle(evolution[i].sublevel)

\* C15: every candidate of the extremum scan of level i has class_id i with
\* 1 <= i <= L-2, an integer interior position, response |Ldet|, size esigma,
\* the octave of the level and the sublevel as angle; levels 0 and L-1 emit
\* none; and the keypoints the merge hands to the refinement still have
\* these fields
C15_CandidateFields ==
    pc \in {"scan", "fill", "refine"} =>
        /\ Len(kpts_par) = Max2(NLevels - 2, 0)
        /\ \A k \in 1..Len(kpts_par) : \A j \in 1..Len(kpts_par[k]) :
              ScanFields(kpts_par[k][j]) /\ kpts_par[k][j].class_id = k
        /\ pc = "fill" => \A j \in 1..Len(kpts) : ScanFields(kpts[j])
        /\ pc = "refine" => \A j \in (ri + 1)..Len(kpts) : ScanFields(kpts[j])

\* C15 witness: the refinement starts on a vector of two keypoints, the
\* first of a level with sublevel 1
C15_Witness ==
    /\ pc = "refine"
    /\ ri = 0
    /\ dst = <<0, 0, 0, 1>>
    /\ Len(kpts) = 2
    /\ kpts[1].angle = NumAngle(1)
    /\ kpts[1].size.k = "esigma"

\* C16 (as claimed): a pixel is emitted as a candidate only if its response
\* is strictly greater than the response of its left neighbour on the same
\* level; a pixel that equals its left neighbour is never emitted
C16_StrictLeft ==
    pc \in {"scan", "fill"} =>
        \A k \in 1..Len(kpts_par) : \A j \in 1..Len(kpts_par[k]) :
            LET c == kpts_par[k][j]
            IN  evolution[k].Ldet[c.yn][c.xn] > evolution[k].Ldet[c.yn][c.xn - 1]

\* the accepted keypoints a candidate of the level is a duplicate of
CloseIncumbents(cand, level) ==
    { m \in 1..Len(kpts) :
        /\ kpts[m].class_id \in {level - 1, level, level + 1}
        /\ Dist2(cand, kpts[m])[1] <
              evolution[level].sigma_size * evolution[level].sigma_size
                  * Dist2(cand, kpts[m])[2] }

DedupStep ==
    (pc = "fill" /\ ci' # ci) =>
        LET c == NextCandidate(kpts_par, ci)
            level == c[1] + 1
            cand == kpts_par[c[1] + 1][c[2] + 1]
        IN  IF CloseIncumbents(cand, level) = {}
            THEN kpts' = Append(kpts, cand)
            ELSE \A m \in CloseIncumbents(cand, level) :
                    IF cand.response > kpts[m].response
                    THEN Len(kpts') = Len(kpts) /\ kpts'[m] = cand
                    ELSE kpts' = kpts

\* C17 (as claimed): when a candidate of level i lies within squared distance
\* sigma_size[i]^2 of an accepted keypoint of level i-1, i or i+1, exactly one
\* of the two is kept: a strictly stronger candidate overwrites the incumbent
\* at its index, any other candidate is discarded and the vector is
\* unchanged; a candidate without such an incumbent is appended
C17_DedupStep == [][DedupStep]_vars

\* the descriptor support pt +/- smax * size of a keypoint leaves the image
SupportLeavesImage(kp) ==
    LET r == (Smax(options) * kp.size.n) \div kp.size.d
    IN  \/ kp.xn * 1000 - r < -500
        \/ kp.xn * 1000 + r >= options.img_width * 1000 - 500
        \/ kp.yn * 1000 - r < -500
        \/ kp.yn * 1000 + r >= options.img_height * 1000 - 500

\* a fill step accepts a candidate that no close incumbent stops, whatever
\* its support, and its outcome is the same for every descriptor family
BorderFilterOff ==
    (pc = "fill" /\ ci' # ci) =>
        LET c == NextCandidate(kpts_par, ci)
            level == c[1] + 1
            cand == kpts_par[c[1] + 1][c[2] + 1]
            ik == FirstRepeated(kpts, cand, level, evolution[level].sigma_size, 1)
        IN  /\ (ik = 0 \/ cand.response > kpts[ik].response) =>
                  \E m \in 1..Len(kpts') : kpts'[m] = cand
            /\ \A d \in {0, 1, 2} :
                  kpts' = Fill(kpts, cand, level, evolution[level].sigma_size,
                               [options EXCEPT !.descriptor = d])

BuildFrame ==
    (pc = "build" /\ lvl' # lvl) =>
        /\ lvl >= 1
        /\ lvl' = lvl + 1
        /\ DOMAIN evolution' = DOMAIN evolution
        /\ \A j \in DOMAIN evolution : j # lvl => evolution'[j] = evolution[j]
        /\ evolution' = [evolution EXCEPT
                           ![lvl].Lsmooth = evolution'[lvl].Lsmooth,
                           ![lvl].Lx = evolution'[lvl].Lx,
                           ![lvl].Lflow = evolution'[lvl].Lflow,
                           ![lvl].Lt = evolution'[lvl].Lt]
        /\ evolution'[lvl].Lt.src = evolution[lvl - 1].Lt.src
        /\ evolution'[lvl].Lt.n = evolution[lvl - 1].Lt.n + 1
        /\ evolution'[lvl].Lt.c = evolution'[lvl].Lflow.n
        /\ evolution'[lvl].Lt.tau = evolution[lvl].etime - evolution[lvl - 1].etime

\* C19: the build goes through the levels in increasing order; step i >= 1
\* writes only Lsmooth, Lx, Ly, Lflow and Lt of level i, leaves every other
\* level as it is, and computes Lt[i] from Lt[i-1], Lflow[i] and
\* etime[i] - etime[i-1] alone
C19_BuildFrame == [][BuildFrame]_vars

\* C19 witness: the loop has written levels 1 and 2, each one step after the
\* level before it
C19_Witness ==
    /\ pc = "build"
    /\ lvl = 3
    /\ evolution[1].Lt.n = 1
    /\ evolution[2].Lt.n = 2
    /\ evolution[2].Lt.tau = evolution[2].etime - evolution[1].etime
    /\ evolution[2].Lt.src # [s \in Sites |-> 0]

\* what the step of a pass or the combine may change
RowBuffers == {"qr", "py", "ay", "by", "Lty", "th1"}

ColumnBuffers == {"qc", "px", "ax", "bx", "Ltx", "th2"}

Running == {"qr", "py", "qc", "px", "ab", "thomas"}

PassFrames ==
    /\ (aos.th1 \in Running /\ aos'.th1 # aos.th1) =>
           \A f \in DOMAIN aos : f \notin RowBuffers => aos'[f] = aos[f]
    /\ (aos.th2 \in Running /\ aos'.th2 # aos.th2) =>
           \A f \in DOMAIN aos : f \notin ColumnBuffers => aos'[f] = aos[f]
    /\ aos'.Ld # aos.Ld => (aos.th1 = "done" /\ aos.th2 = "done")

\* the result of the concurrent step is the result of AOS_Rows followed by
\* AOS_Columns and the combine, whatever the scratch buffers held before
JoinedIsSequential ==
    aos.th1 = "joined" =>
        /\ aos.Lty = AOS_Rows(aos.Ldprev, aos.c, aos.stepsize).Lty
        /\ aos.Ltx = AOS_Columns(aos.Ldprev, aos.c, aos.stepsize).Ltx
        /\ aos.Ld = AOS_Step_Scalar_Mat(aos.Ldprev, aos.c, aos.stepsize)

\* C20: in one AOS step the row pass writes only qr, py, ay, by, Lty, the
\* column pass only qc, px, ax, bx, Ltx, neither writes Ldprev or c, and Ld is
\* combined only after both have finished; so every interleaving of the two
\* passes gives the Ld of the sequential step
C20_PassesDisjoint == [](JoinedIsSequential) /\ [][PassFrames]_vars

\* C20 witness: a step on an impulse image with a conductivity that is not
\* constant has been joined, on scratch buffers an earlier step had used
C20_Witness ==
    /\ aos.th1 = "joined"
    /\ aos.th2 = "joined"
    /\ aos.Ldprev = Impulse(0, 1, 0, 1)
    /\ aos.c = Impulse(1, 1, 1, 0)
    /\ aos.stepsize = 2
    /\ aos.qr = Qr(aos.c)
    /\ aos.qc = Qc(aos.c)
    /\ aos.Ld # [i \in 0..(AosH - 1) |-> [j \in 0..(AosW - 1) |-> FInt(aos.Ldprev[i][j])]]

\* in every row of the tridiagonal matrix (diagonal a, off-diagonals b) the
\* diagonal entry is above the sum of the absolute off-diagonal entries
DiagDominant(a, b) ==
    \A i \in DOMAIN a : \A j \in DOMAIN a[i] :
        a[i][j] > (IF i > 0 THEN Abs(b[i - 1][j]) ELSE 0)
                  + (IF i < NRows(a) - 1 THEN Abs(b[i][j]) ELSE 0)

\* C21: for a conductivity without negative entries and a positive step size
\* the tridiagonal systems AOS_Rows and AOS_Columns hand to Thomas are
\* strictly diagonally dominant
C21_DiagDominant ==
    (aos.th1 # "idle" /\ aos.stepsize > 0
        /\ \A i \in DOMAIN aos.c : \A j \in DOMAIN aos.c[i] : aos.c[i][j] >= 0) =>
        /\ aos.th1 \in {"thomas", "done", "joined"} => DiagDominant(aos.ay, aos.by)
        /\ aos.th2 \in {"thomas", "done", "joined"} => DiagDominant(aos.ax, aos.bx)

\* C21 witness: both passes stand before Thomas with step size 2 and a
\* conductivity that has zero and non-zero entries
C21_Witness ==
    /\ aos.th1 = "thomas"
    /\ aos.th2 = "thomas"
    /\ aos.stepsize = 2
    /\ aos.c = Impulse(0, 1, 1, 0)
    /\ aos.ay = Ay(Py(Qr(aos.c)), 2)
    /\ \E i \in DOMAIN aos.bx : \E j \in DOMAIN aos.bx[i] : aos.bx[i][j] < 0

\* C26 (as claimed): a keypoint whose accumulated sums are all zero (a level
\* with all-zero derivatives) is described without error and its row is left
\* all zero, with and without the clipping normalization
C26_DegenerateZero ==
    ret = "0" =>
        \A i \in 1..Len(desc.data) :
            (desc.data[i].fn # "zeros" /\ desc.data[i].lev[1] = "zero") =>
                /\ desc.data[i].val = "zero"
                /\ Clipping_Descriptor(desc.data[i].val) = "zero"

(***************************************************************************)
(* One iteration of the loop body of SURFInvoker, MSURFInvoker and         *)
(* GSURFInvoker::operator(), sample by sample: the angle of the keypoint,  *)
(* the sample loop of Compute_Main_Orientation_SURF and the cell loops of  *)
(* the extraction function.  Coordinates are in thousandths of a pixel,    *)
(* the angle is a number of quarter turns, whose cosine and sine are taken *)
(* as exact.  The Gaussian weights are positive factors and are left out.  *)
(***************************************************************************)
Cos(q) == <<1, 0, -1, 0>>[q + 1]

Sin(q) == <<0, 1, 0, -1>>[q + 1]

MSURF(fn) ==
    fn \in {"Get_MSURF_Upright_Descriptor_64", "Get_MSURF_Descriptor_64",
            "Get_MSURF_Upright_Descriptor_128", "Get_MSURF_Descriptor_128"}

GSURF(fn) ==
    fn \in {"Get_GSURF_Descriptor_64", "Get_GSURF_Upright_Descriptor_64",
            "Get_GSURF_Descriptor_128"}

\* the functions that read kpt.angle
Rotated(fn) ==
    fn \in {"Get_SURF_Descriptor_64", "Get_SURF_Descriptor_128",
            "Get_MSURF_Descriptor_64", "Get_MSURF_Descriptor_128",
            "Get_GSURF_Descriptor_64", "Get_GSURF_Descriptor_128"}

sample_step == 5

pattern_size(fn) == IF MSURF(fn) THEN 12 ELSE 10

\* the side of a cell in samples: k < i + sample_step, or k < i + 9
CellSide(fn) == IF MSURF(fn) THEN 9 ELSE sample_step

\* the start value of i and of j
LoopStart(fn) == IF MSURF(fn) THEN -8 ELSE -pattern_size(fn)

\* the value of i (of j) inside the body: "i = i-4" in the while loops
LoopEnter(fn, i) == IF MSURF(fn) THEN i - 4 ELSE i

\* faulty variant: the while loops advance by the cell side less one
LoopAdvance_Stride8(fn, i) == IF MSURF(fn) THEN i + 8 ELSE i + sample_step

\* "i += 9" at the end of the while body, "i += sample_step" in the for loops
LoopAdvance(fn, i) == IF MSURF(fn) THEN i + 9 ELSE i + sample_step

\* the entries an extraction function appends for one cell
CellEntries(fn) ==
    IF fn \in {"Get_SURF_Upright_Descriptor_128", "Get_SURF_Descriptor_128",
               "Get_MSURF_Upright_Descriptor_128", "Get_MSURF_Descriptor_128",
               "Get_GSURF_Descriptor_128"}
    THEN <<"dxp", "dxn", "mdxp", "mdxn", "dyp", "dyn", "mdyp", "mdyn">>
    ELSE <<"dx", "dy", "mdx", "mdy">>

\* faulty variant: only the lower limits are enforced
Check_Descriptor_Limits_LowerOnly(x, y, width, height) ==
    << IF x < 0 THEN 0 ELSE x, IF y < 0 THEN 0 ELSE y >>

\* Check_Descriptor_Limits(x, y, width, height): the pair <<x, y>> it leaves
Check_Descriptor_Limits(x, y, width, height) ==
    LET x0 == IF x < 0 THEN 0 ELSE x
        y0 == IF y < 0 THEN 0 ELSE y
    IN  << IF x0 > width - 1 THEN width - 1 ELSE x0,
           IF y0 > height - 1 THEN height - 1 ELSE y0 >>

\* scale = fRound(kpt.size/2.0)
Scale(kp) == fRound(kp.size \div 2)

\* <<sample_x, sample_y>> of the sample (k, l)
SamplePoint(fn, kp, k, l) ==
    LET scale == Scale(kp)
        co == Cos(kp.angle)
        si == Sin(kp.angle)
    IN  IF Rotated(fn)
        THEN << kp.x + 1000 * (-l * scale * si + k * scale * co),
                kp.y + 1000 * (l * scale * co + k * scale * si) >>
        ELSE IF GSURF(fn)
        THEN << kp.x + 1000 * k * scale, kp.y + 1000 * l * scale >>
        ELSE << 1000 * l * scale + kp.x, 1000 * k * scale + kp.y >>

\* x1 and y1 before the limits: (int)(sample - .5), and fRound(sample - .5)
\* in the rotated M-SURF functions
LowCorner(fn, sample) ==
    IF fn \in {"Get_MSURF_Descriptor_64", "Get_MSURF_Descriptor_128"}
    THEN fRound(sample - 500)
    ELSE Trunc(sample - 500, 1000)

\* x2 and y2 before the limits: (int)(sample + .5)
HighCorner(sample) == Trunc(sample + 500, 1000)

\* what a sample adds to dx and to dy, as coefficients of <<rx, ry>>; the
\* G-SURF functions add the gauge derivatives lww and lvv
Components(fn, kp) ==
    IF GSURF(fn) THEN [dx |-> "lww", dy |-> "lvv"]
    ELSE IF Rotated(fn)
    THEN [dx |-> <<-Sin(kp.angle), Cos(kp.angle)>>,
          dy |-> <<Cos(kp.angle), Sin(kp.angle)>>]
    ELSE [dx |-> <<1, 0>>, dy |-> <<0, 1>>]

\* the body of the two inner loops for the sample (k, l)
Sample(fn, kp, k, l, width, height) ==
    LET p  == SamplePoint(fn, kp, k, l)
        c1 == Check_Descriptor_Limits(LowCorner(fn, p[1]), LowCorner(fn, p[2]),
                                      width, height)
        c2 == Check_Descriptor_Limits(HighCorner(p[1]), HighCorner(p[2]),
                                      width, height)
    IN  [ k |-> k, l |-> l, sample_x |-> p[1], sample_y |-> p[2],
          x1 |-> c1[1], y1 |-> c1[2], x2 |-> c2[1], y2 |-> c2[2],
          fx |-> p[1] - 1000 * c1[1], fy |-> p[2] - 1000 * c1[2],
          into |-> Components(fn, kp) ]

\* the samples of the cell (i, j) in the order the loops over k and l visit
\* them
Cell(fn, kp, i, j, width, height) ==
    LET n == CellSide(fn)
    IN  [ m \in 1..(n * n) |->
            Sample(fn, kp, i + ((m - 1) \div n), j + ((m - 1) % n), width, height) ]

\* the fields an extraction function reads at the four corners of a sample
Fields(fn) ==
    IF GSURF(fn) THEN {"Lx", "Ly", "Lxx", "Lxy", "Lyy"} ELSE {"Lx", "Ly"}

\* the pixel reads of a sample: *(evolution[level].F.ptr<float>(y) + x)
Reads(fn, kp, s) ==
    { [level |-> kp.class_id, f |-> f, y |-> c[1], x |-> c[2]] :
        f \in Fields(fn),
        c \in {<<s.y1, s.x1>>, <<s.y1, s.x2>>, <<s.y2, s.x1>>, <<s.y2, s.x2>>} }

\* faulty variant: the border of the disc is sampled too
InDisc_Closed(i, j) == i * i + j * j <= 36

\* "if (i*i + j*j < 36)"
InDisc(i, j) == i * i + j * j < 36

\* the resX, resY entry a sample of the orientation loop stores: 0 outside
\* the image, the weighted derivatives at (iy, ix) inside
OriSample(kp, i, j, width, height) ==
    LET s  == Scale(kp)
        iy == fRound(kp.y + 1000 * j * s)
        ix == fRound(kp.x + 1000 * i * s)
    IN  IF iy >= 0 /\ iy < height /\ ix >= 0 /\ ix < width
        THEN [i |-> i, j |-> j, iy |-> iy, ix |-> ix, inside |-> TRUE,
              val |-> <<"Lx", "Ly">>]
        ELSE [i |-> i, j |-> j, iy |-> iy, ix |-> ix, inside |-> FALSE,
              val |-> <<0, 0>>]

\* the loop over j = -6..6 for one i, from j on: the stores it makes, each
\* with the index idx it is made at
RECURSIVE OriColumnFrom(_, _, _, _, _, _)
OriColumnFrom(kp, i, j, idx, width, height) ==
    IF j > 6 THEN <<>>
    ELSE IF InDisc(i, j)
    THEN <<[idx |-> idx, s |-> OriSample(kp, i, j, width, height)]>> \o
         OriColumnFrom(kp, i, j + 1, idx + 1, width, height)
    ELSE OriColumnFrom(kp, i, j + 1, idx, width, height)

\* faulty variant: the upright branch leaves the angle alone
UprightAngle_Kept(angle) == angle

\* "if (upright) kp.angle = 0;"
UprightAngle(angle) == 0

\* what the window loop can leave in kpt.angle: a window replaces it only
\* when its summed vector is longer than max = 0, which needs a stored
\* sample that is not zero
WindowAngles(kp, res, grad) ==
    IF grad = "zero" \/ \A n \in 1..Len(res) : ~res[n].s.inside
    THEN {[angle |-> kp.angle, by |-> "kept"]}
    ELSE {[angle |-> kp.angle, by |-> "kept"]} \cup
         {[angle |-> a, by |-> "estimator"] : a \in 0..3}

\* the levels the extremum scan takes keypoints from, in an evolution of L
\* levels
ScanLevels(L) == 1..(L - 2)

\* the keypoints and instances the loop body is followed on
BodyLevels == MaxOmax * MaxNSub

BodyPositions ==
    { <<0, 0>>, <<1500, 500 * (ImgH - 1)>>,
      <<1000 * (ImgW - 1), 1000 * (ImgH - 1)>> }

BodyKeypoints ==
    { [x |-> p[1], y |-> p[2], size |-> 2000 * s, angle |-> a, class_id |-> c] :
        p \in BodyPositions, s \in 1..MaxScale, a \in {0, 1},
        c \in {1, BodyLevels - 2} \cap ScanLevels(BodyLevels) }

BodyOptions ==
    [ descriptor : {0, 1, 2}, upright : BOOLEAN, extended : BOOLEAN,
      img_width : {ImgW}, img_height : {ImgH} ]

NoBody(opt, kp, grad) ==
    [ opt |-> opt, fn |-> computeDescriptorFn(opt), kp |-> kp, grad |-> grad,
      levels |-> BodyLevels, cols |-> DescCols(opt.extended),
      pc |-> "begin", angle0 |-> kp.angle, by |-> "none",
      oi |-> -6, idx |-> 0, res |-> <<>>,
      read |-> <<>>, i |-> 0, j |-> 0, dcount |-> 0, written |-> <<>>,
      cells |-> 0, samples |-> <<>>, ks |-> {}, ls |-> {}, normalized |-> {} ]

BodyInit ==
    /\ options = AosOptions
    /\ evolution = Allocate_Memory_Evolution(options)
    /\ pc = "idle"
    /\ called = {}
    /\ ret = "none"
    /\ lvl = 0
    /\ kpts_par = <<>>
    /\ kpts = <<>>
    /\ ci = <<0, 0>>
    /\ ri = 0
    /\ dst = <<0, 0, 0, 1>>
    /\ desc = NoDesc
    /\ kin = <<>>
    /\ ranges = <<>>
    /\ wpos = <<>>
    /\ wlog = {}
    /\ aos = <<>>
    /\ \E opt \in BodyOptions : \E kp \in BodyKeypoints :
       \E grad \in {"zero", "some"} :
          body = NoBody(opt, kp, grad)

facade == <<options, evolution, pc, called, ret, lvl, kpts_par, kpts, ci, ri,
            dst, desc, kin, ranges, wpos, wlog, aos>>

\* "if (upright) kp.angle = 0;"
Body_Upright ==
    /\ body.pc = "begin"
    /\ body.opt.upright
    /\ body' = [body EXCEPT !.kp.angle = UprightAngle(body.kp.angle),
                            !.by = "upright", !.pc = "extract"]
    /\ UNCHANGED facade

\* "else Compute_Main_Orientation_SURF(kp, evolution, imgSize);"
Ori_Begin ==
    /\ body.pc = "begin"
    /\ ~body.opt.upright
    /\ body' = [body EXCEPT !.oi = -6, !.idx = 0, !.res = <<>>, !.pc = "ori"]
    /\ UNCHANGED facade

\* one iteration of the loop over i: the loop over j
Ori_Column ==
    /\ body.pc = "ori"
    /\ body.oi <= 6
    /\ LET col == OriColumnFrom(body.kp, body.oi, -6, body.idx,
                                body.opt.img_width, body.opt.img_height)
       IN  body' = [body EXCEPT !.res = body.res \o col,
                                !.idx = body.idx + Len(col),
                                !.oi = body.oi + 1]
    /\ UNCHANGED facade

\* the window loop, and the return
Ori_Windows ==
    /\ body.pc = "ori"
    /\ body.oi > 6
    /\ \E w \in WindowAngles(body.kp, body.res, body.grad) :
          body' = [body EXCEPT !.kp.angle = w.angle, !.by = w.by,
                               !.pc = "extract"]
    /\ UNCHANGED facade

\* the head of the extraction function: "angle = kpt.angle; co = cos(angle);
\* si = sin(angle);" in the functions that rotate, and the start of the loop
\* over i
Extract_Begin ==
    /\ body.pc = "extract"
    /\ body' = [body EXCEPT
                  !.read = IF Rotated(body.fn)
                           THEN <<[angle |-> body.kp.angle, by |-> body.by]>>
                           ELSE <<>>,
                  !.i = LoopStart(body.fn), !.dcount = 0, !.pc = "outer"]
    /\ UNCHANGED facade

\* the outer loop is entered: j starts over
Outer_Enter ==
    /\ body.pc = "outer"
    /\ body.i < pattern_size(body.fn)
    /\ body' = [body EXCEPT !.i = LoopEnter(body.fn, body.i),
                            !.j = LoopStart(body.fn), !.pc = "inner"]
    /\ UNCHANGED facade

\* one iteration of the inner loop: the samples of one cell, and its entries
\* appended at desc[dcount++]
Inner_Cell ==
    /\ body.pc = "inner"
    /\ body.j < pattern_size(body.fn)
    /\ LET jb == LoopEnter(body.fn, body.j)
           n  == Len(CellEntries(body.fn))
           side == CellSide(body.fn)
       IN  body' = [body EXCEPT
                      !.samples = Cell(body.fn, body.kp, body.i, jb,
                                       body.opt.img_width, body.opt.img_height),
                      !.written = body.written \o
                                  [m \in 1..n |-> body.dcount + m - 1],
                      !.dcount = body.dcount + n,
                      !.cells = body.cells + 1,
                      !.ks = body.ks \cup (body.i..(body.i + side - 1)),
                      !.ls = body.ls \cup (jb..(jb + side - 1)),
                      !.j = LoopAdvance(body.fn, jb)]
    /\ UNCHANGED facade

\* the inner loop ends: the end of the outer body
Outer_Advance ==
    /\ body.pc = "inner"
    /\ body.j >= pattern_size(body.fn)
    /\ body' = [body EXCEPT !.i = LoopAdvance(body.fn, body.i), !.pc = "outer"]
    /\ UNCHANGED facade

\* the outer loop ends
Outer_Exit ==
    /\ body.pc = "outer"
    /\ body.i >= pattern_size(body.fn)
    /\ body' = [body EXCEPT !.pc = "norm"]
    /\ UNCHANGED facade

\* "for (int i = 0; i < dsize; i++) desc[i] /= len;"
Unit_Vector ==
    /\ body.pc = "norm"
    /\ body' = [body EXCEPT !.normalized = 0..(dsize(body.fn) - 1),
                            !.pc = "done"]
    /\ UNCHANGED facade

BodyNext ==
    \/ Body_Upright
    \/ Ori_Begin
    \/ Ori_Column
    \/ Ori_Windows
    \/ Extract_Begin
    \/ Outer_Enter
    \/ Inner_Cell
    \/ Outer_Advance
    \/ Outer_Exit
    \/ Unit_Vector

BodySpec == BodyInit /\ [][BodyNext]_vars

(***************************************************************************)
(* Properties of the loop body                                             *)
(***************************************************************************)
\* C22: every pixel read of Lx, Ly, Lxx, Lxy, Lyy an extraction function
\* makes, for a keypoint of a level the scan takes keypoints from and any
\* position, size and angle, has 0 <= x <= W-1 and 0 <= y <= H-1, for both
\* corner pairs, and a level within 0..L-1
C22_ClampedReads ==
    \A n \in 1..Len(body.samples) :
        \A r \in Reads(body.fn, body.kp, body.samples[n]) :
            /\ 0 <= r.x /\ r.x <= body.opt.img_width - 1
            /\ 0 <= r.y /\ r.y <= body.opt.img_height - 1
            /\ 0 <= r.level /\ r.level <= body.levels - 1

\* C22 witness: a G-SURF cell with a sample whose lower corner is left of
\* the image and whose upper corner is below it, read on five fields
C22_Witness ==
    /\ body.samples # <<>>
    /\ GSURF(body.fn)
    /\ \E n \in 1..Len(body.samples) :
          /\ LowCorner(body.fn, body.samples[n].sample_x) < 0
          /\ HighCorner(body.samples[n].sample_y) > body.opt.img_height - 1
          /\ Cardinality(Reads(body.fn, body.kp, body.samples[n])) >= 5

\* C23 (as claimed): the weights fx, fy of every sample are what they are
\* without the limits: the sample coordinate less its own lower corner
C23_WeightsUnclamped ==
    \A n \in 1..Len(body.samples) :
        /\ body.samples[n].fx =
             body.samples[n].sample_x
               - 1000 * LowCorner(body.fn, body.samples[n].sample_x)
        /\ body.samples[n].fy =
             body.samples[n].sample_y
               - 1000 * LowCorner(body.fn, body.samples[n].sample_y)

\* C24: for every family, upright and extended, the selected function
\* writes desc[0], desc[1], ... in order, dsize entries in all, dsize being
\* the width of the row, and nothing past the row; the M-SURF loops end
\* after 4 x 4 cells of 9 x 9 samples with offsets -12..11 on each axis
C24_RowWritten ==
    /\ dsize(body.fn) = body.cols
    /\ body.dcount = Len(body.written)
    /\ \A n \in 1..Len(body.written) :
          body.written[n] = n - 1 /\ body.written[n] < body.cols
    /\ body.normalized \subseteq 0..(body.cols - 1)
    /\ body.pc \in {"norm", "done"} =>
          /\ Len(body.written) = dsize(body.fn)
          /\ body.cells = 16
    /\ MSURF(body.fn) =>
          /\ Len(body.samples) \in {0, 81}
          /\ body.ks \subseteq -12..11
          /\ body.ls \subseteq -12..11
          /\ body.pc \in {"norm", "done"} =>
                body.ks = -12..11 /\ body.ls = -12..11

\* C24 witness: an extended M-SURF function has returned
C24_Witness ==
    /\ body.pc = "done"
    /\ MSURF(body.fn)
    /\ body.cols = 128
    /\ body.cells = 16
    /\ body.normalized = 0..127

\* the upright function of the family and length of a rotated one
UprightOf(fn) ==
    CASE fn = "Get_SURF_Descriptor_64" -> "Get_SURF_Upright_Descriptor_64"
      [] fn = "Get_SURF_Descriptor_128" -> "Get_SURF_Upright_Descriptor_128"
      [] fn = "Get_MSURF_Descriptor_64" -> "Get_MSURF_Upright_Descriptor_64"
      [] fn = "Get_MSURF_Descriptor_128" -> "Get_MSURF_Upright_Descriptor_128"
      [] OTHER -> fn

\* C25 (as claimed): at the angle 0 a rotated SURF or M-SURF function visits
\* the sample coordinates of the upright function in the same order and adds
\* the same derivative components to dx and dy
C25_UprightIsRotatedAtZero ==
    (body.samples # <<>> /\ ~GSURF(body.fn) /\ Rotated(body.fn)
        /\ body.kp.angle = 0) =>
        LET up == Cell(UprightOf(body.fn), body.kp, body.samples[1].k,
                       body.samples[1].l, body.opt.img_width,
                       body.opt.img_height)
        IN  \A n \in 1..Len(body.samples) :
                /\ body.samples[n].sample_x = up[n].sample_x
                /\ body.samples[n].sample_y = up[n].sample_y
                /\ body.samples[n].into = up[n].into

\* the orientation estimator has run its sample loop to the end
Sampled ==
    \/ body.pc = "ori" /\ body.oi > 6
    \/ body.pc \notin {"begin", "ori"} /\ ~body.opt.upright

\* C29: the sample loop of the orientation estimator stores at idx = 0, 1,
\* ..., 108, each once and in this order, 109 stores in all and none at 109
\* or beyond, and a sample outside the image stores (0, 0)
C29_OrientationSamples ==
    /\ body.idx = Len(body.res)
    /\ \A n \in 1..Len(body.res) :
          /\ body.res[n].idx = n - 1
          /\ body.res[n].idx <= 108
          /\ ~body.res[n].s.inside => body.res[n].s.val = <<0, 0>>
          /\ body.res[n].s.inside =>
                /\ 0 <= body.res[n].s.ix /\ body.res[n].s.ix < body.opt.img_width
                /\ 0 <= body.res[n].s.iy /\ body.res[n].s.iy < body.opt.img_height
    /\ Sampled => Len(body.res) = 109

\* C29 witness: the sample loop has ended, with samples inside and outside
\* the image
C29_Witness ==
    /\ body.pc = "ori"
    /\ body.oi > 6
    /\ body.idx = 109
    /\ \E n \in 1..Len(body.res) : body.res[n].s.inside
    /\ \E n \in 1..Len(body.res) : ~body.res[n].s.inside

\* C30: an extraction function reads the angle only after the invoker's
\* angle step for this keypoint: with upright the angle is 0 and the
\* estimator has not run; without it the estimator has run, and has left
\* the angle as it was when no stored sample can make a window's sum
\* positive
C30_AngleBeforeRead ==
    /\ \A n \in 1..Len(body.read) :
          /\ body.read[n].by \in {"upright", "kept", "estimator"}
          /\ body.read[n].angle = body.kp.angle
    /\ body.pc # "begin" /\ body.opt.upright =>
          /\ body.by = "upright"
          /\ body.kp.angle = 0
          /\ body.res = <<>>
    /\ body.pc \notin {"begin", "ori"} /\ ~body.opt.upright =>
          /\ body.by \in {"kept", "estimator"}
          /\ Len(body.res) = 109
          /\ body.by = "kept" => body.kp.angle = body.angle0
          /\ body.grad = "zero" => body.by = "kept"

\* C30 witness: a rotating function has read an angle the estimator left at
\* its previous, non-zero value
C30_Witness ==
    /\ body.pc = "done"
    /\ ~body.opt.upright
    /\ body.grad = "zero"
    /\ body.angle0 = 1
    /\ body.read # <<>>
    /\ body.read[1].angle = 1

(***************************************************************************)
(* Properties of a detection call as a whole                               *)
(***************************************************************************)
\* the levels and Ldet pixels Do_Subpixel_Refinement reads for kp lie inside
\* the evolution and the image
RefineReadsInside(kp, ev) ==
    LET x == Trunc(kp.xn, kp.den)
        y == Trunc(kp.yn, kp.den)
    IN  /\ kp.class_id - 1 \in DOMAIN ev
        /\ kp.class_id + 1 \in DOMAIN ev
        /\ x - 1 >= 0 /\ x + 1 <= ImgW - 1
        /\ y - 1 >= 0 /\ y + 1 <= ImgH - 1

\* C27 (as claimed): for every number of levels, 0, 1 and 2 included, the
\* level loops of detection end, the scan reads the levels lvl - 1, lvl and
\* lvl + 1 inside the evolution and refinement reads levels and pixels
\* inside the evolution and the image
C27_DetectionSafe ==
    /\ pc # "abort"
    /\ pc = "scan" => (lvl - 1) \in DOMAIN evolution /\ (lvl + 1) \in DOMAIN evolution
    /\ (pc = "refine" /\ ri < Len(kpts)) => RefineReadsInside(kpts[ri + 1], evolution)

\* a second Feature_Detection on the vector kp the first one returned:
\* Determinant_Hessian_Parallel merges the candidates of the scan into kp
\* and Do_Subpixel_Refinement runs over the whole vector, with a fresh dst
DetectAgain(ev, opt, kp) ==
    LET filled == FillAll(ev, opt, ScanAll(ev, opt, 1), kp)
    IN  IF \A i \in 1..Len(filled) : RefineReadsInside(filled[i], ev)
        THEN RefineAll(ev, opt, filled, 0, <<0, 0, 0, 1>>)
        ELSE {}

\* C28 (as claimed): a second detection on the vector the first one filled
\* returns the keypoints the first one returned
C28_SecondCallSame ==
    Detected => DetectAgain(evolution, options, kpts) = {kpts}

=============================================================================
